---- MODULE Spec2Model ----
(***************************************************************************)
(* State-machine model of cstar/roms/component.py: ROMSComponent.pre_run,  *)
(* ROMSComponent.run, ROMSComponent.post_run and ROMSDiscretization.       *)
(*                                                                         *)
(* Conventions                                                             *)
(*   - an Optional value is a sequence: None is <<>>, Some(x) is <<x>>;    *)
(*   - a path is the sequence of its components, a file name is the        *)
(*     sequence of its dot-separated segments;                             *)
(*   - a text file is a sequence of chunks, a chunk a sequence of lines,   *)
(*     a line a sequence of strings; a placeholder token is the chunk      *)
(*     holding that token alone;                                           *)
(*   - local variables of a method live in a record that is cleared when   *)
(*     the method returns or raises, and fields that are not read again    *)
(*     are cleared as soon as they are dead.                               *)
(***************************************************************************)
EXTENDS Integers, Sequences, FiniteSets, TLC

VARIABLES
    \* ---- the component (ROMSComponent.__init__) and its namelist file
    exe_path,           \* Optional path of the built executable
    namelists,          \* the AdditionalCode holding the runtime namelists
    discretization,     \* ROMSDiscretization: time_step, n_procs_x, n_procs_y
    mod_namelist,       \* content of namelists.working_path/modified_files[0]
    \* ---- the file system and the processes run() touches
    dirs,               \* directories created by run() and by make
    files,              \* files written by run(): path -> content
    writes,             \* paths written by the run() invocation, in order
    submissions,        \* queue commands the run() invocation invoked, in order
    launched,           \* number of child simulation processes started
    \* ---- the run() invocation in progress
    pc,                 \* where the invocation stands
    raised,             \* the exception that ended the last invocation
    run_locals,         \* live local variables of run()
    tstep0,             \* run(): baseline step
    roms_init_string,   \* run(): the initializing message, once printed
    clock,              \* time.time() - T0, in ticks
    last_line,          \* the stdout line handled by the last loop iteration
    printed,            \* what the last loop iteration printed
    romsprocess,        \* the child: returncode and captured stderr
    \* ---- pre_run(): the datasets and the files it reads and writes
    additional_source_code, \* the AdditionalCode holding the compile-time code
    input_datasets,     \* ROMSComponent.input_datasets, in its order
    partitioned_files,  \* InputDataset.partitioned_files of each dataset
    disk,               \* the files that exist: datasets, partitions, companions
    events,             \* partition_netcdf and _replace_text_in_file calls of
                        \* the pre_run() invocation, in order
    pre_locals,         \* live local variables of pre_run()
    prev_mod_namelist,  \* the namelist file when the invocation began
    prev_partitioned_files, \* partitioned_files when the invocation began
    prev_outcome,       \* how the invocation before this one ended
    \* ---- post_run(): the output directory
    top,                \* the names of the files at its top level
    partitioned,        \* the names of the files in its PARTITIONED
                        \* subdirectory, None while there is no such directory
    held,               \* the files it held at first
    original,           \* the per-worker files it held at first
    joined,             \* the files that ncjoin has written
    joins,              \* the ncjoin calls of the post_run() invocation
    post_locals,        \* live local variables of post_run()
    post_message,       \* what the post_run() invocation has printed
    \* ---- the processes that build() and run() start
    makes,              \* the make commands of the build() invocation, in
                        \* order, with their exit code and captured stderr
    child,              \* the child simulation process: its status, what it
                        \* has yet to write to each stream, its exit code
    pipes,              \* what each pipe of the child holds, unread
    \* ---- setup()
    setup_locals,       \* live local variables of setup()
    gets                \* the get and get_from_yaml calls of the setup()
                        \* invocation, in order

\* what only run() changes
run_vars == <<exe_path, dirs, files, writes, submissions, launched, run_locals,
              tstep0, roms_init_string, clock, last_line, printed, romsprocess>>

\* what only pre_run() changes
pre_vars == <<additional_source_code, input_datasets, partitioned_files, disk,
              events, pre_locals, prev_mod_namelist, prev_partitioned_files,
              prev_outcome>>

\* what only post_run() changes
post_vars == <<top, partitioned, held, original, joined, joins, post_locals,
               post_message>>

\* what only build() and the child process of run() change
proc_vars == <<makes, child, pipes>>

\* what only setup() changes
setup_vars == <<setup_locals, gets>>

vars == <<namelists, discretization, mod_namelist, pc, raised, run_vars,
          pre_vars, post_vars, proc_vars, setup_vars>>

----------------------------------------------------------------------------
\* Optional values and paths

None == <<>>

Some(x) == <<x>>

Get(opt) == opt[1]

Parent(path) == SubSeq(path, 1, Len(path) - 1)

Join(path, name) == Append(path, name)

----------------------------------------------------------------------------
\* Bounds of the model

MaxProcs == 2       \* n_procs_x, n_procs_y range over 1..MaxProcs

MaxCores == 3       \* cores per node range over 1..MaxCores

MaxSteps == 2       \* n_time_steps ranges over 1..MaxSteps

MaxLines == 2       \* stdout lines the child writes before it exits

MaxTicks == 2       \* clock ticks after T0

MaxWorkers == 2     \* per-worker files of an output group: 1..MaxWorkers

ManyWorkers == 11   \* and the per-worker files of a large output group

PipeCapacity == 2   \* units of output a pipe holds before a write blocks

MaxStderr == 3      \* units the child writes to standard error

----------------------------------------------------------------------------
\* The run-configuration template (namelist) and _replace_text_in_file

NTIMES == "__NTIMES_PLACEHOLDER__"

TIMESTEP == "__TIMESTEP_PLACEHOLDER__"

GRID_FILE == "__GRID_FILE_PLACEHOLDER__"

INITIAL_CONDITION_FILE == "__INITIAL_CONDITION_FILE_PLACEHOLDER__"

FORCING_FILES == "__FORCING_FILES_PLACEHOLDER__"

MARBL_SETTINGS_FILE == "__MARBL_SETTINGS_FILE_PLACEHOLDER__"

MARBL_TRACER_LIST_FILE == "__MARBL_TRACER_LIST_FILE_PLACEHOLDER__"

MARBL_DIAG_LIST_FILE == "__MARBL_DIAG_LIST_FILE_PLACEHOLDER__"

\* the chunk of a file that is the literal token
TokenChunk(token) == << <<token>> >>

\* a chunk holding one line of text
TextChunk(line) == << line >>

\* `old_text in contents`
TokenIn(contents, old_text) ==
    \E i \in DOMAIN contents : contents[i] = TokenChunk(old_text)

\* contents.replace(old_text, new_text): every occurrence is replaced
ReplaceAll(contents, old_text, new_text) ==
    [i \in DOMAIN contents |->
        IF contents[i] = TokenChunk(old_text) THEN new_text ELSE contents[i]]

\* _replace_text_in_file(file, old_text, new_text): the file's new content and
\* whether old_text was found in it
replace_text_in_file(contents, old_text, new_text) ==
    [contents |-> IF TokenIn(contents, old_text)
                  THEN ReplaceAll(contents, old_text, new_text)
                  ELSE contents,
     found |-> TokenIn(contents, old_text)]

----------------------------------------------------------------------------
\* ROMSDiscretization and the allocation plan

n_procs_sum(d) == d.n_procs_x + d.n_procs_y

\* ROMSDiscretization.n_procs_tot
n_procs_tot(d) == d.n_procs_x * d.n_procs_y

\* ceil(a / b) for a >= 0 and b > 0
CeilDiv(a, b) == (a + b - 1) \div b

\* _calculate_node_distribution(n_cores_required, tot_cores_per_node):
\* the node count and the cores to request on each node
calculate_node_distribution(n_cores_required, tot_cores_per_node) ==
    <<CeilDiv(n_cores_required, tot_cores_per_node), tot_cores_per_node>>

\* a bug: the planner accepts every process count
NodeDistributionNeverFails(n_cores_required) == FALSE

\* _calculate_node_distribution fails on a process count that is not positive
NodeDistributionFails(n_cores_required) == n_cores_required <= 0

\* the call of run(): nnodes, ncores = _calculate_node_distribution(...)
NodeDistribution(d, cores_per_node) ==
    calculate_node_distribution(n_procs_tot(d), cores_per_node)

----------------------------------------------------------------------------
\* run(): inputs

\* values of _CSTAR_SYSTEM: the five systems run() knows and one it does not
Systems == {"sdsc_expanse", "nersc_perlmutter", "ncar_derecho", "osx_arm64",
            "linux_x86_64", "other_system"}

\* values of _CSTAR_SCHEDULER: the three run() knows and one it does not
Schedulers == {Some("pbs"), Some("slurm"), None, Some("lsf")}

\* values of _CSTAR_SYSTEM_CORES_PER_NODE
CoresPerNode == {None} \cup {Some(c) : c \in 1..MaxCores}

\* the n_time_steps argument
TimeStepArgs == {None} \cup {Some(n) : n \in 1..MaxSteps}

\* the account_key argument
AccountKeys == {None, Some("acct")}

\* the output_dir argument
OutputDirArgs == {None, Some(<<"case", "output">>)}

job_name == "my_roms_run"

walltime == "CSTAR_SYSTEM_MAX_WALLTIME"

\* exit codes of the child and of the queue command
ReturnCodes == {0, 1, 2}

\* what the child may have written to standard error
StderrTexts == {"", "forrtl: severe (174): SIGSEGV"}

\* the first whitespace-separated field of a stdout line, as its characters
FirstFields == {<<"0">>, <<"1">>, <<"2">>, <<"1", "2">>, <<"-", "1">>,
                <<"x">>, <<"1", "x">>, <<"-">>}

\* a stdout line, as run() reads it: len(line.split()) and line.split()[0]
Lines == {[nparts |-> 0, first |-> <<>>]} \cup
         {[nparts |-> n, first |-> t] : n \in {8, 9, 10}, t \in FirstFields}

----------------------------------------------------------------------------
\* int(parts[0])

DigitValue(c) == CASE c = "0" -> 0 [] c = "1" -> 1 [] c = "2" -> 2

IsDigits(s) == Len(s) >= 1 /\ \A i \in DOMAIN s : s[i] \in {"0", "1", "2"}

Unsigned(s) == IF Len(s) >= 1 /\ s[1] \in {"+", "-"} THEN Tail(s) ELSE s

\* int(s) does not raise ValueError
ParsesAsInt(s) == IsDigits(Unsigned(s))

RECURSIVE DecimalValue(_)
DecimalValue(s) ==
    IF s = <<>> THEN 0
    ELSE 10 * DecimalValue(SubSeq(s, 1, Len(s) - 1)) + DigitValue(s[Len(s)])

\* int(s), where it does not raise
IntValue(s) ==
    IF s[1] = "-" THEN 0 - DecimalValue(Unsigned(s))
    ELSE DecimalValue(Unsigned(s))

----------------------------------------------------------------------------
\* run(): helpers

NoError == [type |-> "None", what |-> "", ref |-> <<>>]

Error(type, what) == [type |-> type, what |-> what, ref |-> <<>>]

NoLocals == [n_time_steps |-> 0, account_key |-> None, output_dir |-> <<>>,
             scheduler |-> None, system |-> "", cores_per_node |-> None,
             nnodes |-> 0, ncores |-> 0, roms_exec_cmd |-> <<>>]

NoPrint == [kind |-> "none", step |-> 0, of |-> 0, elapsed |-> 0,
            eta_num |-> 0, eta_den |-> 0]

NoLine == [nparts |-> 0, first |-> <<>>]

NoProcess == [returncode |-> None, stderr |-> "", nlines |-> 0]

\* match _CSTAR_SYSTEM: the launcher prefix, None where no case matches
exec_pfx(system) ==
    CASE system = "sdsc_expanse" -> Some("srun --mpi=pmi2")
      [] system = "nersc_perlmutter" -> Some("srun")
      [] system \in {"ncar_derecho", "osx_arm64", "linux_x86_64"} -> Some("mpirun")
      [] OTHER -> None

\* namelists.working_path / namelists.modified_files[0]
ModNamelistPath == Join(Get(namelists.working_path), namelists.modified_file)

roms_exec_cmd(system) ==
    <<Get(exec_pfx(system)), "-n", ToString(n_procs_tot(discretization))>>
        \o Get(exe_path) \o ModNamelistPath

\* the namelist after the two substitutions of run()
RunNamelist(n_time_steps) ==
    replace_text_in_file(
        replace_text_in_file(mod_namelist, NTIMES,
                             TextChunk(<<ToString(n_time_steps)>>)).contents,
        TIMESTEP, TextChunk(<<ToString(discretization.time_step)>>)).contents

\* the PBS submission script
PbsScript(l) ==
    << <<"#PBS -S /bin/bash">>,
       <<"#PBS -N", job_name>>,
       <<"#PBS -o", job_name, ".out">>,
       <<"#PBS -A">> \o l.account_key,
       <<"#PBS -l select=", ToString(l.nnodes), ":ncpus=", ToString(l.ncores),
         ",walltime=", walltime>>,
       <<"#PBS -q", "CSTAR_SYSTEM_DEFAULT_PARTITION">>,
       <<"#PBS -j oe">>,
       <<"#PBS -k eod">>,
       <<"#PBS -V">> >>
    \o (IF l.system = "ncar_derecho" THEN << <<"cd ${PBS_O_WORKDIR}">> >> ELSE <<>>)
    \o << <<>>, l.roms_exec_cmd >>

\* the SLURM submission script
SlurmScript(l) ==
    << <<"#!/bin/bash">>,
       <<"#SBATCH --job-name=", job_name>>,
       <<"#SBATCH --output=", job_name, ".out">> >>
    \o (IF l.system = "nersc_perlmutter"
        THEN << <<"#SBATCH --qos=", "CSTAR_SYSTEM_DEFAULT_PARTITION">>,
                <<"#SBATCH -C cpu">> >>
        ELSE << <<"#SBATCH --partition=", "CSTAR_SYSTEM_DEFAULT_PARTITION">> >>)
    \o << <<"#SBATCH --nodes=", ToString(l.nnodes)>>,
          <<"#SBATCH --ntasks-per-node=", ToString(l.ncores)>>,
          <<"#SBATCH --account=">> \o l.account_key,
          <<"#SBATCH --export=ALL">>,
          <<"#SBATCH --mail-type=ALL">>,
          <<"#SBATCH --time=", walltime>>,
          <<>>, l.roms_exec_cmd >>

\* writing content to path: open(path, "w").write(content)
WriteFile(fs, path, content) == (path :> content) @@ fs

\* dt.datetime.now().strftime('%Y%m%d_%H%M%S'): two seconds of one day
Stamps == {"20240921_101500", "20240921_101501"}

\* the error log of a failed direct run
ErrlogPath(output_dir, stamp) ==
    Join(output_dir, "ROMS_STDERR_" \o stamp \o ".log")

----------------------------------------------------------------------------
\* run(): the progress loop

NinePartsOrMore(line) == line.nparts >= 9

\* len(parts) == 9
NineParts(line) == line.nparts = 9

\* the line reaches the print of a progress report: it has 9 parts and
\* int(parts[0]) does not raise
IsProgressLine(line) == NineParts(line) /\ ParsesAsInt(line.first)

\* if tstep0 == 0: tstep0 = tstep
Baseline(old_tstep0, tstep) == IF old_tstep0 = 0 THEN tstep ELSE old_tstep0

\* ETA = (n_time_steps - (tstep - tstep0)) * ((tstep - tstep0) / (time.time() - T0)),
\* as the fraction <<numerator, denominator>>
ETA(n_time_steps, tstep, base, elapsed) ==
    <<(n_time_steps - (tstep - base)) * (tstep - base), elapsed>>

\* the progress report printed for a progress line
ProgressPrint(n_time_steps, tstep, base, t1, t2) ==
    [kind |-> "progress", step |-> tstep - base, of |-> n_time_steps,
     elapsed |-> t2,
     eta_num |-> ETA(n_time_steps, tstep, base, t1)[1],
     eta_den |-> ETA(n_time_steps, tstep, base, t1)[2]]

InitPrint == [NoPrint EXCEPT !.kind = "init"]

\* the elif of the loop: the initializing message is due
InitMessageDue(line) == ~NineParts(line) /\ tstep0 = 0 /\ roms_init_string = ""

----------------------------------------------------------------------------
\* run(): actions

\* the invocation ends with an exception
RunRaises(err) == pc' = "raised" /\ raised' = err

\* a bug: the check is missing
NoExePathCheck(path) == FALSE

\* self.exe_path is None
ExePathUnset(path) == path = None

\* lines 665-756: the checks, the namelist substitutions, the output directory,
\* the command and the node distribution
run_begin(n_time_steps_arg, account_key, output_dir_arg, system, scheduler, cores_per_node) ==
    LET n_time_steps == IF n_time_steps_arg = None THEN 1
                        ELSE Get(n_time_steps_arg)
        output_dir == IF output_dir_arg = None THEN Parent(Get(exe_path))
                      ELSE Get(output_dir_arg)
        args == [NoLocals EXCEPT !.n_time_steps = n_time_steps,
                                 !.account_key = account_key,
                                 !.scheduler = scheduler,
                                 !.system = system,
                                 !.cores_per_node = cores_per_node]
        plan == NodeDistribution(discretization, Get(cores_per_node))
    IN
    /\ pc = "idle"
    /\ UNCHANGED <<pre_vars, post_vars, proc_vars, setup_vars>>
    /\ UNCHANGED <<exe_path, namelists, discretization, files, writes,
                   submissions, launched, tstep0, roms_init_string, clock,
                   last_line, printed, romsprocess>>
    /\ IF ExePathUnset(exe_path)
       THEN /\ RunRaises(Error("ValueError", "exe_path is None"))
            /\ run_locals' = NoLocals
            /\ UNCHANGED <<mod_namelist, dirs>>
       ELSE IF namelists.is_none
       THEN /\ RunRaises(Error("FileNotFoundError", "no namelists"))
            /\ run_locals' = NoLocals
            /\ UNCHANGED <<mod_namelist, dirs>>
       ELSE IF ~namelists.has_modified_files
       THEN /\ RunRaises(Error("ValueError", "no editable namelist"))
            /\ run_locals' = NoLocals
            /\ UNCHANGED <<mod_namelist, dirs>>
       ELSE IF namelists.working_path = None
       THEN /\ RunRaises(Error("TypeError", "namelists.working_path is None"))
            /\ run_locals' = NoLocals
            /\ UNCHANGED <<mod_namelist, dirs>>
       ELSE /\ mod_namelist' = RunNamelist(n_time_steps)
            /\ dirs' = dirs \cup {output_dir}
            /\ IF exec_pfx(system) = None
               THEN /\ RunRaises(Error("UnboundLocalError", "exec_pfx"))
                    /\ run_locals' = NoLocals
               ELSE IF cores_per_node = None
               THEN /\ RunRaises(Error("ValueError",
                                       "unable to calculate node distribution"))
                    /\ run_locals' = [NoLocals EXCEPT !.system = system]
               ELSE IF NodeDistributionFails(n_procs_tot(discretization))
               THEN /\ RunRaises(Error("ConfigurationError",
                                       "n_cores_required is not positive"))
                    /\ run_locals' = [NoLocals EXCEPT
                           !.system = system,
                           !.cores_per_node = cores_per_node]
               ELSE /\ pc' = "dispatch"
                    /\ raised' = NoError
                    /\ run_locals' = [args EXCEPT
                           !.output_dir = output_dir,
                           !.nnodes = plan[1],
                           !.ncores = plan[2],
                           !.roms_exec_cmd = roms_exec_cmd(system)]

Run_Begin ==
    \E n \in TimeStepArgs, a \in AccountKeys, o \in OutputDirArgs,
       sys \in Systems, sched \in Schedulers, cpn \in CoresPerNode :
        run_begin(n, a, o, sys, sched, cpn)

script_fname(scheduler) ==
    IF scheduler = Some("pbs") THEN "cstar_run_script.pbs"
    ELSE "cstar_run_script.sh"

scheduler_script(l) ==
    IF l.scheduler = Some("pbs") THEN PbsScript(l) ELSE SlurmScript(l)

AccountKeyPbsOnly(l) == l.scheduler = Some("pbs") /\ l.account_key = None

\* `if account_key is None`, in case "pbs" and in case "slurm"
AccountKeyMissing(l) == l.account_key = None

\* case "pbs" and case "slurm", up to the script written to run_path
Run_Script ==
    /\ pc = "dispatch"
    /\ UNCHANGED <<pre_vars, post_vars, proc_vars, setup_vars>>
    /\ run_locals.scheduler \in {Some("pbs"), Some("slurm")}
    /\ IF AccountKeyMissing(run_locals)
       THEN /\ RunRaises(Error("ValueError", "no account_key"))
            /\ UNCHANGED <<files, writes>>
       ELSE /\ pc' = "submit"
            /\ files' = WriteFile(files,
                   Join(run_locals.output_dir, script_fname(run_locals.scheduler)),
                   scheduler_script(run_locals))
            /\ writes' = Append(writes,
                   Join(run_locals.output_dir, script_fname(run_locals.scheduler)))
            /\ UNCHANGED raised
    /\ UNCHANGED <<exe_path, namelists, discretization, mod_namelist, dirs,
                   submissions, launched, run_locals, tstep0,
                   roms_init_string, clock, last_line, printed, romsprocess>>

\* a bug: every script goes to sbatch
sbatch_always(scheduler) == "sbatch"

\* the queue command of case "pbs" (line 781) and of case "slurm" (line 814)
queue_command(scheduler) ==
    IF scheduler = Some("pbs") THEN "qsub" ELSE "sbatch"

\* a bug: the exit code of the queue command is checked
SubmitOutcomeChecked(returncode) ==
    IF returncode = 0 THEN "returned" ELSE "raised"

\* subprocess.run(...) without check=True: run() goes on to its end whatever
\* the exit code of the queue command
SubmitOutcome(returncode) == "returned"

\* subprocess.run(f"qsub {script_fname}") or sbatch: its exit code is not read
Run_Submit ==
    /\ pc = "submit"
    /\ UNCHANGED <<pre_vars, post_vars, proc_vars, setup_vars>>
    /\ \E rc \in ReturnCodes :
         /\ submissions' = Append(submissions,
                [cmd |-> queue_command(run_locals.scheduler),
                 script |-> script_fname(run_locals.scheduler),
                 cwd |-> run_locals.output_dir,
                 returncode |-> rc])
         /\ pc' = SubmitOutcome(rc)
    /\ UNCHANGED <<exe_path, namelists, discretization, mod_namelist, dirs,
                   files, writes, launched, raised, run_locals, tstep0,
                   roms_init_string, clock, last_line, printed, romsprocess>>

\* case None: subprocess.Popen(roms_exec_cmd, ...), tstep0 = 0, T0 = time.time()
Run_Popen ==
    /\ pc = "dispatch"
    /\ UNCHANGED <<pre_vars, post_vars, proc_vars, setup_vars>>
    /\ run_locals.scheduler = None
    /\ pc' = "reading"
    /\ launched' = launched + 1
    /\ run_locals' = [NoLocals EXCEPT
           !.n_time_steps = run_locals.n_time_steps,
           !.output_dir = run_locals.output_dir]
    /\ tstep0' = 0
    /\ roms_init_string' = ""
    /\ clock' = 0
    /\ UNCHANGED <<exe_path, namelists, discretization, mod_namelist, dirs,
                   files, writes, submissions, raised, last_line,
                   printed, romsprocess>>

\* no case of match _CSTAR_SCHEDULER applies: run() returns
Run_NoCase ==
    /\ pc = "dispatch"
    /\ UNCHANGED <<pre_vars, post_vars, proc_vars, setup_vars>>
    /\ run_locals.scheduler \notin {Some("pbs"), Some("slurm"), None}
    /\ pc' = "returned"
    /\ UNCHANGED <<exe_path, namelists, discretization, mod_namelist, dirs,
                   files, writes, submissions, launched, raised, run_locals,
                   tstep0, roms_init_string, clock, last_line, printed,
                   romsprocess>>

\* one iteration of `for line in romsprocess.stdout`; t1 and t2 are the two
\* readings of time.time() - T0 (T0 precedes the child's first line: t1 >= 1)
read_line(line) ==
    /\ pc = "reading"
    /\ UNCHANGED <<pre_vars, post_vars>>
    /\ romsprocess.nlines < MaxLines
    /\ romsprocess' = [romsprocess EXCEPT !.nlines = @ + 1]
    /\ last_line' = line
    /\ IF IsProgressLine(line)
       THEN /\ tstep0' = Baseline(tstep0, IntValue(line.first))
            /\ \E t1 \in 1..MaxTicks, t2 \in 1..MaxTicks :
                 /\ clock <= t1 /\ t1 <= t2
                 /\ printed' = ProgressPrint(run_locals.n_time_steps,
                                   IntValue(line.first),
                                   Baseline(tstep0, IntValue(line.first)),
                                   t1, t2)
                 /\ clock' = t2
            /\ UNCHANGED roms_init_string
       ELSE IF InitMessageDue(line)
       THEN /\ roms_init_string' = "Running ROMS: Initializing run..."
            /\ printed' = InitPrint
            /\ UNCHANGED <<tstep0, clock>>
       ELSE /\ printed' = NoPrint
            /\ UNCHANGED <<tstep0, roms_init_string, clock>>
    /\ UNCHANGED <<exe_path, namelists, discretization, mod_namelist, dirs,
                   files, writes, submissions, launched, pc, raised, run_locals>>

Run_ReadLine ==
    /\ UNCHANGED <<proc_vars, setup_vars>>
    /\ \E line \in Lines : read_line(line)

ExitedWithOne(returncode) == returncode = 1

\* `if romsprocess.returncode != 0`
ExitedWithErrors(returncode) == returncode # 0

\* the child closes stdout and exits: the loop ends (its locals are dead),
\* then romsprocess.wait() and lines 873-885
run_wait(returncode, stderr, stamp) ==
    LET errlog == ErrlogPath(run_locals.output_dir, stamp) IN
    /\ pc = "reading"
    /\ UNCHANGED <<pre_vars, post_vars>>
    /\ romsprocess' = [returncode |-> Some(returncode), stderr |-> stderr,
                       nlines |-> 0]
    /\ tstep0' = 0
    /\ roms_init_string' = ""
    /\ clock' = 0
    /\ last_line' = NoLine
    /\ printed' = NoPrint
    /\ IF ExitedWithErrors(returncode)
       THEN /\ files' = WriteFile(files, errlog, TextChunk(<<stderr>>))
            /\ writes' = Append(writes, errlog)
            /\ RunRaises([type |-> "RuntimeError",
                          what |-> "ROMS terminated with errors",
                          ref |-> errlog])
       ELSE /\ pc' = "returned"
            /\ UNCHANGED <<files, writes, raised>>
    /\ UNCHANGED <<exe_path, namelists, discretization, mod_namelist, dirs,
                   submissions, launched, run_locals>>

Run_Wait ==
    /\ UNCHANGED <<proc_vars, setup_vars>>
    /\ \E rc \in ReturnCodes, err \in StderrTexts, stamp \in Stamps :
         run_wait(rc, err, stamp)

----------------------------------------------------------------------------
\* run(): the specification

\* a namelist file that still holds the two tokens of run(), one that holds
\* neither, one that still holds the grid token too (pre_run() leaves it
\* in place on a component with no model grid), and the file that a run()
\* with n_time_steps = 1 has left (on a component that run() accepts)
RunTemplates ==
    { <<TextChunk(<<"title">>), TokenChunk(NTIMES), TokenChunk(TIMESTEP)>>,
      <<TextChunk(<<"title">>)>>,
      <<TextChunk(<<"title">>), TokenChunk(GRID_FILE), TokenChunk(NTIMES),
        TokenChunk(TIMESTEP)>>,
      <<TextChunk(<<"title">>), TextChunk(<<"1">>), TextChunk(<<"60">>)>> }

NamelistsStates ==
    { [is_none |-> TRUE, has_modified_files |-> FALSE, working_path |-> None,
       modified_file |-> ""],
      [is_none |-> FALSE, has_modified_files |-> FALSE,
       working_path |-> Some(<<"case", "namelists">>), modified_file |-> ""],
      [is_none |-> FALSE, has_modified_files |-> TRUE, working_path |-> None,
       modified_file |-> "roms.in"],
      [is_none |-> FALSE, has_modified_files |-> TRUE,
       working_path |-> Some(<<"case", "namelists">>),
       modified_file |-> "roms.in"] }

\* the discretizations of run(): __init__ accepts every pair of integers
Discretizations ==
    [time_step : {60}, n_procs_x : (-1)..MaxProcs, n_procs_y : {1, 2}]

NoPreLocals == [datasets_to_partition |-> <<>>, i |-> 0,
                namelist_forcing_str |-> <<>>,
                marbl_placeholder_in_namelist |-> FALSE]

\* build() has not been invoked and there is no child process
ProcsUntouched ==
    /\ makes = <<>>
    /\ child = [status |-> "none", left |-> [stdout |-> 0, stderr |-> 0],
                returncode |-> None]
    /\ pipes = [stdout |-> 0, stderr |-> 0]

NoSetupLocals == [i |-> 0, target_dir |-> None, start_date |-> None,
                  end_date |-> None]

\* setup() has not been invoked
SetupUntouched ==
    /\ setup_locals = NoSetupLocals
    /\ gets = <<>>

\* pre_run() has not been invoked and nothing is on disk
PreRunUntouched ==
    /\ additional_source_code = [is_none |-> FALSE,
                                 working_path |-> Some(<<"case", "source">>)]
    /\ input_datasets = <<>>
    /\ partitioned_files = <<>>
    /\ disk = {}
    /\ events = <<>>
    /\ pre_locals = NoPreLocals
    /\ prev_mod_namelist = <<>>
    /\ prev_partitioned_files = <<>>
    /\ prev_outcome = "none"

NoPostLocals == [files |-> <<>>, i |-> 0, to_move |-> {}]

\* post_run() has not been invoked and there is no output
PostRunUntouched ==
    /\ top = {}
    /\ partitioned = None
    /\ held = {}
    /\ original = {}
    /\ joined = {}
    /\ joins = <<>>
    /\ post_locals = NoPostLocals
    /\ post_message = ""

\* the component before run(): the discretizations vary with the namelist
\* file that holds the two tokens of run(), the namelist files vary with
\* the discretization of one process
InitRun ==
    /\ exe_path \in {None, Some(<<"case", "build", "roms">>)}
    /\ namelists \in NamelistsStates
    /\ discretization \in Discretizations
    /\ mod_namelist \in RunTemplates
    /\ IF n_procs_tot(discretization) = 1 THEN TRUE
       ELSE mod_namelist = <<TextChunk(<<"title">>), TokenChunk(NTIMES),
                              TokenChunk(TIMESTEP)>>
    /\ IF mod_namelist = <<TextChunk(<<"title">>), TextChunk(<<"1">>),
                           TextChunk(<<"60">>)>>
       THEN /\ exe_path # None
            /\ namelists.has_modified_files
            /\ namelists.working_path # None
       ELSE TRUE
    /\ dirs = {}
    /\ files = <<>>
    /\ writes = <<>>
    /\ submissions = <<>>
    /\ launched = 0
    /\ pc = "idle"
    /\ raised = NoError
    /\ run_locals = NoLocals
    /\ tstep0 = 0
    /\ roms_init_string = ""
    /\ clock = 0
    /\ last_line = NoLine
    /\ printed = NoPrint
    /\ romsprocess = NoProcess
    /\ PreRunUntouched
    /\ PostRunUntouched
    /\ ProcsUntouched
    /\ SetupUntouched

NextRun ==
    \/ Run_Begin
    \/ Run_Script
    \/ Run_Submit
    \/ Run_Popen
    \/ Run_NoCase
    \/ Run_ReadLine
    \/ Run_Wait

SpecRun == InitRun /\ [][NextRun]_vars

----------------------------------------------------------------------------
\* run(): properties

\* C1: in direct execution run() writes an error log and raises if and only
\* if the child's exit code is not 0: after a non-zero exit exactly one file
\* has been written, it is the timestamped error log in the output directory,
\* it holds the captured standard error and the exception names its path;
\* after exit code 0 nothing has been written and run() has returned; and
\* nothing is written while the output is being read.
C1_ErrorLogIffNonZeroExit ==
    /\ pc = "reading" => writes = <<>> /\ raised = NoError
    /\ romsprocess.returncode # None =>
        IF Get(romsprocess.returncode) # 0
        THEN /\ pc = "raised"
             /\ raised.type = "RuntimeError"
             /\ writes = <<raised.ref>>
             /\ \E stamp \in Stamps :
                    raised.ref = ErrlogPath(run_locals.output_dir, stamp)
             /\ DOMAIN files = {raised.ref}
             /\ files[raised.ref] = TextChunk(<<romsprocess.stderr>>)
        ELSE /\ pc = "returned"
             /\ raised = NoError
             /\ writes = <<>>
             /\ DOMAIN files = {}

\* a direct run whose child wrote to standard error and exited with code 2
C1_Witness ==
    /\ pc = "raised"
    /\ romsprocess.returncode = Some(2)
    /\ romsprocess.stderr # ""
    /\ Len(writes) = 1

\* C4: when the scheduler is pbs or slurm and account_key is None, run()
\* raises the account-key error with no script written and no queue command
\* invoked; a script is written or submitted only with an account key.
C4_NoAccountKeyNoScript ==
    /\ (run_locals.scheduler \in {Some("pbs"), Some("slurm")}
        /\ run_locals.account_key = None)
       => /\ pc \in {"dispatch", "raised"}
          /\ pc = "raised" => raised = Error("ValueError", "no account_key")
          /\ writes = <<>>
          /\ submissions = <<>>
          /\ DOMAIN files = {}
          /\ launched = 0
    /\ (pc = "submit" \/ submissions # <<>>) => run_locals.account_key # None

\* slurm without an account key has raised
C4_Witness ==
    /\ pc = "raised"
    /\ run_locals.scheduler = Some("slurm")
    /\ run_locals.account_key = None
    /\ raised.what = "no account_key"

\* C5: the allocation plan run() computes is (node count, cores per node)
\* with cores per node the system's value and node count the least integer
\* whose product with it covers n_procs_x * n_procs_y.
C5_AllocationPlan ==
    pc = "dispatch" =>
        LET total_procs == discretization.n_procs_x * discretization.n_procs_y
            cores_per_node == Get(run_locals.cores_per_node)
        IN /\ run_locals.ncores = cores_per_node
           /\ run_locals.nnodes * run_locals.ncores >= total_procs
           /\ (run_locals.nnodes - 1) * run_locals.ncores < total_procs

\* 4 processes on nodes of 3 cores: 2 nodes
C5_Witness ==
    /\ pc = "dispatch"
    /\ discretization.n_procs_x * discretization.n_procs_y = 4
    /\ run_locals.cores_per_node = Some(3)
    /\ run_locals.nnodes = 2

\* the first fields of FirstFields that Python's int() accepts
C7_IntegerFields ==
    {<<"0">>, <<"1">>, <<"2">>, <<"1", "2">>, <<"-", "1">>}

C7_Conforms(line) == line.nparts = 9 /\ line.first \in C7_IntegerFields

\* C7: a stdout line produces a progress report if and only if it has
\* exactly 9 fields and the first is an integer; any other line leaves the
\* baseline step as it was and does not end the run.
C7_ProgressIffNineFieldsInt ==
    [][(pc = "reading" /\ romsprocess'.nlines = romsprocess.nlines + 1)
        => /\ (printed'.kind = "progress") <=> C7_Conforms(last_line')
           /\ ~C7_Conforms(last_line') => tstep0' = tstep0
           /\ pc' = "reading"
           /\ raised' = NoError]_vars

\* a 9-field line whose first field is not an integer was read after the
\* baseline was set, and nothing was reported
C7_Witness ==
    /\ pc = "reading"
    /\ last_line = [nparts |-> 9, first |-> <<"1", "x">>]
    /\ tstep0 = 1
    /\ printed.kind = "none"

----------------------------------------------------------------------------
\* pre_run(): datasets, files and the partition step

\* a file: its directory and the dot-separated segments of its name
File(dir, name) == [dir |-> dir, name |-> name]

\* the path of a file as one sequence of strings
PathOf(file) == file.dir \o file.name

\* working_path of an InputDataset: None, one Path or a list of Paths
NoPath == [is_list |-> FALSE, files |-> <<>>]

SinglePath(file) == [is_list |-> FALSE, files |-> <<file>>]

PathList(fs) == [is_list |-> TRUE, files |-> fs]

Range(seq) == {seq[i] : i \in DOMAIN seq}

\* type(f) in [ROMSSurfaceForcing, ROMSTidalForcing, ROMSBoundaryForcing]
ForcingTypes ==
    {"ROMSSurfaceForcing", "ROMSTidalForcing", "ROMSBoundaryForcing"}

\* [d for d in self.input_datasets if d.exists_locally], as indices
RECURSIVE LocalDatasets(_, _)
LocalDatasets(ds, d) ==
    IF d > Len(ds) THEN <<>>
    ELSE (IF ds[d].exists_locally THEN <<d>> ELSE <<>>)
         \o LocalDatasets(ds, d + 1)

datasets_to_partition(ds) == LocalDatasets(ds, 1)

\* a bug: each file is compared with itself
ColocatedWithSelf(fs) == \A i \in DOMAIN fs : fs[i].dir = fs[i].dir

\* all([d.parent == f.working_path[0].parent for d in f.working_path])
Colocated(fs) == \A i \in DOMAIN fs : fs[i].dir = fs[1].dir

\* f.working_path[0].parent / "PARTITIONED", f.working_path.parent / ...
PartDir(working_path) == Append(working_path.files[1].dir, "PARTITIONED")

\* roms_tools.utils.partition_netcdf(idfile, np_xi, np_eta): one file per
\* worker, written next to idfile, named <stem>.<worker>.nc
partition_netcdf(idfile, np_xi, np_eta) ==
    [k \in 1..(np_xi * np_eta) |->
        File(idfile.dir,
             SubSeq(idfile.name, 1, Len(idfile.name) - 1)
                 \o <<ToString(k - 1), "nc">>)]

\* parted_files = []; for idfile in id_files_to_partition:
\*     parted_files += partition_netcdf(idfile, ...)
RECURSIVE PartedFiles(_, _, _)
PartedFiles(id_files_to_partition, np_xi, np_eta) ==
    IF id_files_to_partition = <<>> THEN <<>>
    ELSE partition_netcdf(Head(id_files_to_partition), np_xi, np_eta)
         \o PartedFiles(Tail(id_files_to_partition), np_xi, np_eta)

\* the paths where the partitions are written
Unmoved(parted_files, partdir) == parted_files

\* [partdir / p.name for p in parted_files]
Moved(parted_files, partdir) ==
    [k \in DOMAIN parted_files |-> File(partdir, parted_files[k].name)]

\* f"     {partdir / d.name} \n"
NamelistLine(partdir, file) == partdir \o file.name

\* for d in dslist: the lines of one dataset
ForcingLines(partdir, dslist) ==
    [k \in DOMAIN dslist |-> NamelistLine(partdir, dslist[k])]

\* a bug: `=` where line 590 has `+=`
OverwriteForcing(namelist_forcing_str, lines) == lines

\* namelist_forcing_str += ...
AppendForcing(namelist_forcing_str, lines) == namelist_forcing_str \o lines

\* the calls pre_run() makes, as they are logged in `events`
PartitionEvent(idfile) ==
    [op |-> "partition_netcdf", arg |-> PathOf(idfile), found |-> TRUE]

ReplaceEvent(token, found) ==
    [op |-> "_replace_text_in_file", arg |-> <<token>>, found |-> found]

PartitionEvents(id_files) ==
    [k \in DOMAIN id_files |-> PartitionEvent(id_files[k])]

\* self.namelists.working_path / name
Companion(name) == File(Get(namelists.working_path), <<name>>)

marbl_settings_path == Companion("marbl_in")

marbl_tracer_list_path == Companion("marbl_tracer_output_list")

marbl_diag_list_path == Companion("marbl_diagnostics_output_list")

\* a bug: the flag is read negated
CompanionStale(marbl_placeholder_in_namelist, path) ==
    ~marbl_placeholder_in_namelist /\ path \notin disk

\* a bug: the error is raised whether or not the token was in the namelist
CompanionAbsent(marbl_placeholder_in_namelist, path) == path \notin disk

\* (marbl_placeholder_in_namelist) and (not path.exists())
CompanionMissing(marbl_placeholder_in_namelist, path) ==
    marbl_placeholder_in_namelist /\ path \notin disk

ErrorAt(type, what, ref) == [type |-> type, what |-> what, ref |-> ref]

----------------------------------------------------------------------------
\* pre_run(): actions

\* the invocation ends with an exception
PreRunRaises(err) ==
    pc' = "raised" /\ raised' = err /\ pre_locals' = NoPreLocals

\* what names a dataset in an error message: its working path
DatasetRef(f) ==
    IF f.working_path.files = <<>> THEN <<f.kind>>
    ELSE PathOf(f.working_path.files[1])

\* a bug: the check is missing
WorkingPathAssumed(nl) == FALSE

\* self.namelists.working_path is None
NoWorkingPath(nl) == nl.working_path = None

\* lines 466-501: the list of datasets to partition and the preliminary checks
PreRun_Begin ==
    /\ pc \in {"idle", "pre_done", "raised"}
    /\ prev_outcome' = (IF pc = "idle" THEN "none"
                        ELSE IF pc = "pre_done" THEN "ok" ELSE "raised")
    /\ prev_mod_namelist' = mod_namelist
    /\ prev_partitioned_files' = partitioned_files
    /\ events' = <<>>
    /\ IF additional_source_code.is_none
          \/ additional_source_code.working_path = None
       THEN PreRunRaises(Error("ValueError",
                               "additional_code.working_path is None"))
       ELSE IF ~namelists.has_modified_files
       THEN PreRunRaises(Error("ValueError", "no editable namelist"))
       ELSE IF namelists.is_none
       THEN PreRunRaises(Error("ValueError", "namelists is None"))
       ELSE IF NoWorkingPath(namelists)
       THEN PreRunRaises(Error("ValueError", "namelists.working_path is None"))
       ELSE /\ pc' = "pre_loop"
            /\ raised' = NoError
            /\ pre_locals' =
                   [datasets_to_partition |->
                        datasets_to_partition(input_datasets),
                    i |-> 1,
                    namelist_forcing_str |-> <<>>,
                    marbl_placeholder_in_namelist |-> FALSE]
    /\ UNCHANGED <<namelists, discretization, mod_namelist, run_vars, proc_vars, setup_vars,
                   post_vars,
                   additional_source_code, input_datasets, partitioned_files,
                   disk>>

\* a bug: the first file of a list is taken, nothing is raised
FirstFileStep(token, what, f, partdir, contents, forcing) ==
    LET r == replace_text_in_file(
                 contents, token,
                 TextChunk(NamelistLine(partdir, f.working_path.files[1])))
    IN  [raised |-> NoError, contents |-> r.contents,
         namelist_forcing_str |-> forcing,
         events |-> <<ReplaceEvent(token, r.found)>>]

\* lines 554-577: a grid or an initial-conditions dataset sets its token
SingleFileStep(token, what, f, partdir, contents, forcing) ==
    IF f.working_path.is_list
    THEN [raised |-> ErrorAt("ValueError", what, DatasetRef(f)),
          contents |-> contents, namelist_forcing_str |-> forcing,
          events |-> <<>>]
    ELSE LET r == replace_text_in_file(
                      contents, token,
                      TextChunk(NamelistLine(partdir,
                                             f.working_path.files[1])))
         IN  [raised |-> NoError, contents |-> r.contents,
              namelist_forcing_str |-> forcing,
              events |-> <<ReplaceEvent(token, r.found)>>]

\* lines 553-590: the namelist modification step of one dataset
NamelistStep(f, partdir, contents, forcing) ==
    IF f.kind = "ROMSModelGrid"
    THEN SingleFileStep(GRID_FILE, "ROMS only accepts a single grid file",
                        f, partdir, contents, forcing)
    ELSE IF f.kind = "ROMSInitialConditions"
    THEN SingleFileStep(INITIAL_CONDITION_FILE,
                        "ROMS only accepts a single initial conditions file",
                        f, partdir, contents, forcing)
    ELSE IF f.kind \in ForcingTypes
    THEN [raised |-> NoError, contents |-> contents,
          namelist_forcing_str |->
              AppendForcing(forcing,
                            ForcingLines(partdir, f.working_path.files)),
          events |-> <<>>]
    ELSE [raised |-> NoError, contents |-> contents,
          namelist_forcing_str |-> forcing, events |-> <<>>]

\* lines 504-590: one iteration of the loop over datasets_to_partition
pre_run_dataset(d) ==
    LET f == input_datasets[d]
        working_path == f.working_path
        partdir == PartDir(working_path)
        parted_files == PartedFiles(working_path.files,
                                    discretization.n_procs_x,
                                    discretization.n_procs_y)
        step == NamelistStep(f, partdir, mod_namelist,
                             pre_locals.namelist_forcing_str)
    IN
    IF ~f.exists_locally
    THEN /\ PreRunRaises(ErrorAt("ValueError",
                                 "working_path refers to a non-existent file",
                                 DatasetRef(f)))
         /\ UNCHANGED <<mod_namelist, partitioned_files, disk, events>>
    ELSE IF working_path = NoPath
    THEN /\ PreRunRaises(ErrorAt("ValueError",
                                 "InputDataset has no working path",
                                 DatasetRef(f)))
         /\ UNCHANGED <<mod_namelist, partitioned_files, disk, events>>
    ELSE IF working_path.is_list /\ ~Colocated(working_path.files)
    THEN /\ PreRunRaises(ErrorAt("ValueError",
                                 "dataset exists in multiple directories",
                                 DatasetRef(f)))
         /\ UNCHANGED <<mod_namelist, partitioned_files, disk, events>>
    ELSE /\ disk' = disk \cup Range(Moved(parted_files, partdir))
         /\ partitioned_files' =
                [partitioned_files EXCEPT
                    ![d] = Some(Moved(parted_files, partdir))]
         /\ events' = events \o PartitionEvents(working_path.files)
                             \o step.events
         /\ mod_namelist' = step.contents
         /\ IF step.raised = NoError
            THEN /\ pc' = pc
                 /\ raised' = raised
                 /\ pre_locals' =
                        [pre_locals EXCEPT
                            !.i = @ + 1,
                            !.namelist_forcing_str =
                                step.namelist_forcing_str]
            ELSE PreRunRaises(step.raised)

PreRun_Dataset ==
    /\ pc = "pre_loop"
    /\ pre_locals.i <= Len(pre_locals.datasets_to_partition)
    /\ pre_run_dataset(pre_locals.datasets_to_partition[pre_locals.i])
    /\ UNCHANGED <<namelists, discretization, run_vars, proc_vars, setup_vars,
                   post_vars,
                   additional_source_code, input_datasets, prev_mod_namelist,
                   prev_partitioned_files, prev_outcome>>

\* lines 592-594: the forcing placeholder is set once the loop has ended
PreRun_Forcing ==
    LET r == replace_text_in_file(mod_namelist, FORCING_FILES,
                                  pre_locals.namelist_forcing_str)
    IN
    /\ pc = "pre_loop"
    /\ pre_locals.i > Len(pre_locals.datasets_to_partition)
    /\ mod_namelist' = r.contents
    /\ events' = Append(events, ReplaceEvent(FORCING_FILES, r.found))
    /\ pc' = "pre_marbl_settings"
    /\ pre_locals' = NoPreLocals
    /\ UNCHANGED <<namelists, discretization, raised, run_vars,
                   proc_vars, setup_vars,
                   post_vars,
                   additional_source_code, input_datasets, partitioned_files,
                   disk, prev_mod_namelist, prev_partitioned_files,
                   prev_outcome>>

\* lines 596-607 and 609-620: a MARBL token is set, then its file is sought
marbl_step(token, path, next_pc) ==
    LET r == replace_text_in_file(mod_namelist, token,
                                  TextChunk(PathOf(path)))
    IN
    /\ mod_namelist' = r.contents
    /\ events' = Append(events, ReplaceEvent(token, r.found))
    /\ IF CompanionMissing(r.found, path)
       THEN PreRunRaises(ErrorAt("FileNotFoundError", "not found",
                                 PathOf(path)))
       ELSE /\ pc' = next_pc
            /\ raised' = raised
            /\ pre_locals' = [pre_locals EXCEPT
                                 !.marbl_placeholder_in_namelist = r.found]
    /\ UNCHANGED <<namelists, discretization, run_vars, proc_vars, setup_vars,
                   post_vars,
                   additional_source_code, input_datasets, partitioned_files,
                   disk, prev_mod_namelist, prev_partitioned_files,
                   prev_outcome>>

PreRun_MarblSettings ==
    /\ pc = "pre_marbl_settings"
    /\ marbl_step(MARBL_SETTINGS_FILE, marbl_settings_path,
                  "pre_marbl_tracer")

PreRun_MarblTracer ==
    /\ pc = "pre_marbl_tracer"
    /\ marbl_step(MARBL_TRACER_LIST_FILE, marbl_tracer_list_path,
                  "pre_marbl_diag")

\* lines 622-633: the check before the diagnostics token reads the flag and
\* the path of the tracer list; then the diagnostics token is set
PreRun_MarblDiag ==
    LET r == replace_text_in_file(mod_namelist, MARBL_DIAG_LIST_FILE,
                                  TextChunk(PathOf(marbl_diag_list_path)))
    IN
    /\ pc = "pre_marbl_diag"
    /\ IF CompanionMissing(pre_locals.marbl_placeholder_in_namelist,
                           marbl_tracer_list_path)
       THEN /\ PreRunRaises(ErrorAt("FileNotFoundError", "not found",
                                    PathOf(marbl_diag_list_path)))
            /\ UNCHANGED <<mod_namelist, events>>
       ELSE /\ mod_namelist' = r.contents
            /\ events' = Append(events,
                                ReplaceEvent(MARBL_DIAG_LIST_FILE, r.found))
            /\ pc' = "pre_done"
            /\ raised' = raised
            /\ pre_locals' = NoPreLocals
    /\ UNCHANGED <<namelists, discretization, run_vars, proc_vars, setup_vars,
                   post_vars,
                   additional_source_code, input_datasets, partitioned_files,
                   disk, prev_mod_namelist, prev_partitioned_files,
                   prev_outcome>>

----------------------------------------------------------------------------
\* pre_run(): the specification

InputDir == <<"case", "input">>

OtherDir == <<"case", "elsewhere">>

Nc(stem) == File(InputDir, <<stem, "nc">>)

\* a dataset whose files have been fetched
Dataset(kind, working_path) ==
    [kind |-> kind, exists_locally |-> TRUE, working_path |-> working_path]

\* a dataset that has not been fetched: exists_locally is False
NotFetched(kind) ==
    [kind |-> kind, exists_locally |-> FALSE, working_path |-> NoPath]

ModelGrids ==
    { <<>>,
      <<Dataset("ROMSModelGrid", SinglePath(Nc("grid")))>>,
      <<Dataset("ROMSModelGrid", PathList(<<Nc("grid"), Nc("grid2")>>))>> }

InitialConditions ==
    { <<>>,
      <<Dataset("ROMSInitialConditions", SinglePath(Nc("ini")))>>,
      <<Dataset("ROMSInitialConditions",
                PathList(<<Nc("ini"), Nc("ini2")>>))>> }

TidalForcings ==
    { <<>>,
      <<Dataset("ROMSTidalForcing", SinglePath(Nc("tides")))>>,
      <<NotFetched("ROMSTidalForcing")>> }

BoundaryForcings ==
    { <<>>,
      <<Dataset("ROMSBoundaryForcing", SinglePath(Nc("bry1")))>>,
      <<Dataset("ROMSBoundaryForcing", SinglePath(Nc("bry1"))),
        Dataset("ROMSBoundaryForcing", SinglePath(Nc("bry2")))>>,
      <<Dataset("ROMSBoundaryForcing",
                PathList(<<Nc("bry1"), Nc("bry2")>>))>>,
      <<Dataset("ROMSBoundaryForcing", SinglePath(Nc("bry1"))),
        Dataset("ROMSBoundaryForcing",
                PathList(<<Nc("bry2"),
                           File(OtherDir, <<"bry3", "nc">>)>>))>> }

SurfaceForcings ==
    { <<>>,
      <<Dataset("ROMSSurfaceForcing", SinglePath(Nc("sfc")))>> }

\* ROMSComponent.input_datasets: grid, initial conditions, tidal, boundary,
\* surface
InputDatasets ==
    { g \o ic \o t \o b \o sf :
        g \in ModelGrids, ic \in InitialConditions, t \in TidalForcings,
        b \in BoundaryForcings, sf \in SurfaceForcings }

\* the files of the datasets that exist locally
LocalFiles(ds) ==
    UNION { IF ds[d].exists_locally THEN Range(ds[d].working_path.files)
            ELSE {} : d \in DOMAIN ds }

MarblTokens ==
    {MARBL_SETTINGS_FILE, MARBL_TRACER_LIST_FILE, MARBL_DIAG_LIST_FILE}

\* the tokens pre_run() sets
PreRunTokens ==
    {GRID_FILE, INITIAL_CONDITION_FILE, FORCING_FILES} \cup MarblTokens

Optionally(s, token) == IF token \in s THEN <<TokenChunk(token)>> ELSE <<>>

\* roms.in made from roms.in_TEMPLATE, with the MARBL tokens in s
PreRunTemplate(s) ==
    <<TextChunk(<<"title">>), TokenChunk(NTIMES), TokenChunk(TIMESTEP),
      TokenChunk(GRID_FILE), TokenChunk(INITIAL_CONDITION_FILE),
      TokenChunk(FORCING_FILES)>>
    \o Optionally(s, MARBL_SETTINGS_FILE)
    \o Optionally(s, MARBL_TRACER_LIST_FILE)
    \o Optionally(s, MARBL_DIAG_LIST_FILE)

CompanionNames ==
    {"marbl_in", "marbl_tracer_output_list", "marbl_diagnostics_output_list"}

\* processor grids up to MaxProcs x (MaxProcs + 1)
PartitionGrids ==
    [time_step : {60}, n_procs_x : 1..MaxProcs, n_procs_y : 1..(MaxProcs + 1)]

AdditionalSourceCodes ==
    { [is_none |-> TRUE, working_path |-> None],
      [is_none |-> FALSE, working_path |-> None],
      [is_none |-> FALSE, working_path |-> Some(<<"case", "source">>)] }

ReadyNamelists ==
    [is_none |-> FALSE, has_modified_files |-> TRUE,
     working_path |-> Some(<<"case", "namelists">>),
     modified_file |-> "roms.in"]

ReadySourceCode ==
    [is_none |-> FALSE, working_path |-> Some(<<"case", "source">>)]

\* a complete component: every kind of dataset, two boundary datasets
FullDatasets ==
    <<Dataset("ROMSModelGrid", SinglePath(Nc("grid"))),
      Dataset("ROMSInitialConditions", SinglePath(Nc("ini"))),
      Dataset("ROMSTidalForcing", SinglePath(Nc("tides"))),
      Dataset("ROMSBoundaryForcing", SinglePath(Nc("bry1"))),
      Dataset("ROMSBoundaryForcing", SinglePath(Nc("bry2"))),
      Dataset("ROMSSurfaceForcing", SinglePath(Nc("sfc")))>>

\* run() has not been invoked
RunUntouched ==
    /\ exe_path = Some(<<"case", "build", "roms">>)
    /\ dirs = {}
    /\ files = <<>>
    /\ writes = <<>>
    /\ submissions = <<>>
    /\ launched = 0
    /\ run_locals = NoLocals
    /\ tstep0 = 0
    /\ roms_init_string = ""
    /\ clock = 0
    /\ last_line = NoLine
    /\ printed = NoPrint
    /\ romsprocess = NoProcess

\* the component before its first pre_run(): the datasets vary over
\* InputDatasets with no or every MARBL file, the MARBL tokens and files vary
\* with no or every dataset, the objects that the preliminary checks read
\* vary with everything else in place
InitPreRun ==
    \E asc \in AdditionalSourceCodes, nl \in NamelistsStates,
       ds \in InputDatasets, disc \in PartitionGrids,
       tokens \in SUBSET MarblTokens, companions \in SUBSET CompanionNames :
        /\ \/ /\ asc = ReadySourceCode
              /\ nl = ReadyNamelists
              /\ tokens = MarblTokens
              /\ companions \in {{}, CompanionNames}
           \/ /\ asc = ReadySourceCode
              /\ nl = ReadyNamelists
              /\ ds \in {<<>>, FullDatasets}
              /\ disc.n_procs_x = 1 /\ disc.n_procs_y = 1
           \/ /\ ds = FullDatasets
              /\ disc.n_procs_x = 1 /\ disc.n_procs_y = 1
              /\ tokens = MarblTokens
              /\ companions = CompanionNames
        /\ additional_source_code = asc
        /\ namelists = nl
        /\ discretization = disc
        /\ input_datasets = ds
        /\ partitioned_files = [d \in DOMAIN ds |-> None]
        /\ mod_namelist = PreRunTemplate(tokens)
        /\ disk = LocalFiles(ds)
                  \cup {File(<<"case", "namelists">>, <<c>>) : c \in companions}
        /\ events = <<>>
        /\ pre_locals = NoPreLocals
        /\ prev_mod_namelist = <<>>
        /\ prev_partitioned_files = <<>>
        /\ prev_outcome = "none"
        /\ pc = "idle"
        /\ raised = NoError
        /\ RunUntouched
        /\ PostRunUntouched
        /\ ProcsUntouched
        /\ SetupUntouched

NextPreRun ==
    \/ PreRun_Begin
    \/ PreRun_Dataset
    \/ PreRun_Forcing
    \/ PreRun_MarblSettings
    \/ PreRun_MarblTracer
    \/ PreRun_MarblDiag

SpecPreRun == InitPreRun /\ [][NextPreRun]_vars

----------------------------------------------------------------------------
\* pre_run(): properties

\* the template held the token when this invocation of pre_run() began
C_TokenAtStart(token) == TokenIn(prev_mod_namelist, token)

\* the positions in `events` of the substitutions of a token
C_Substitutions(token) ==
    {k \in DOMAIN events :
        events[k].op = "_replace_text_in_file" /\ events[k].arg = <<token>>}

\* one line per backing file of the forcing datasets that have a partition
\* list, from dataset d on, each line a path under PARTITIONED
RECURSIVE C3_ExpectedBlock(_)
C3_ExpectedBlock(d) ==
    IF d > Len(input_datasets) THEN <<>>
    ELSE LET f == input_datasets[d]
             fs == f.working_path.files
         IN  (IF /\ f.kind \in {"ROMSTidalForcing", "ROMSBoundaryForcing",
                                "ROMSSurfaceForcing"}
                 /\ partitioned_files[d] # None
              THEN [k \in DOMAIN fs |->
                       fs[k].dir \o <<"PARTITIONED">> \o fs[k].name]
              ELSE <<>>)
             \o C3_ExpectedBlock(d + 1)

\* C3: when pre_run() has completed on a template that held the forcing
\* placeholder, the placeholder has become the block with one line per backing
\* file of the partitioned tidal, boundary and surface datasets, in dataset
\* order then file order, each line a path under a PARTITIONED directory; the
\* forcing substitution was made exactly once, after every partition call.
C3_ForcingBlock ==
    (pc = "pre_done" /\ C_TokenAtStart(FORCING_FILES)) =>
        /\ \A i \in DOMAIN prev_mod_namelist :
               prev_mod_namelist[i] = TokenChunk(FORCING_FILES) =>
                   /\ mod_namelist[i] = C3_ExpectedBlock(1)
                   /\ \A k \in DOMAIN mod_namelist[i] :
                          \E j \in DOMAIN mod_namelist[i][k] :
                              mod_namelist[i][k][j] = "PARTITIONED"
        /\ Cardinality(C_Substitutions(FORCING_FILES)) = 1
        /\ \A k \in C_Substitutions(FORCING_FILES), j \in DOMAIN events :
               events[j].op = "partition_netcdf" => j < k

\* pre_run() has completed on a component whose forcing datasets are two
\* boundary datasets of one file each: the block is their two lines
C3_Witness ==
    /\ pc = "pre_done"
    /\ \E i \in DOMAIN prev_mod_namelist :
           /\ prev_mod_namelist[i] = TokenChunk(FORCING_FILES)
           /\ mod_namelist[i] =
                  << <<"case", "input", "PARTITIONED", "bry1", "nc">>,
                     <<"case", "input", "PARTITIONED", "bry2", "nc">> >>

\* C6: the partition list recorded on a dataset holds n_procs_x * n_procs_y
\* paths per backing file, pairwise distinct, all in the PARTITIONED
\* subdirectory of the directory of the dataset's files; and a later
\* invocation of pre_run() records the list the invocation before it recorded.
C6_PartitionList ==
    \A d \in DOMAIN input_datasets :
        partitioned_files[d] # None =>
            LET recorded == Get(partitioned_files[d])
                fs == input_datasets[d].working_path.files
            IN  /\ Len(recorded) = discretization.n_procs_x
                                   * discretization.n_procs_y * Len(fs)
                /\ \A j \in DOMAIN recorded, k \in DOMAIN recorded :
                       j # k => recorded[j] # recorded[k]
                /\ \A k \in DOMAIN recorded :
                       recorded[k].dir = Append(fs[1].dir, "PARTITIONED")
                /\ (d \in DOMAIN prev_partitioned_files
                    /\ prev_partitioned_files[d] # None)
                       => partitioned_files[d] = prev_partitioned_files[d]

\* a second pre_run() has completed with a 2x3 processor grid: a dataset of
\* one file has its six partitions recorded
C6_Witness ==
    /\ pc = "pre_done"
    /\ prev_outcome = "ok"
    /\ discretization.n_procs_x = 2
    /\ discretization.n_procs_y = 3
    /\ \E d \in DOMAIN input_datasets :
           /\ Len(input_datasets[d].working_path.files) = 1
           /\ partitioned_files[d] # None
           /\ Len(Get(partitioned_files[d])) = 6
           /\ \E k \in DOMAIN events :
                  events[k] = PartitionEvent(
                                  input_datasets[d].working_path.files[1])

\* C9: if a dataset of the component is not materialized locally, pre_run()
\* fails: it does not skip the dataset and complete.
C9_NonLocalDatasetFails ==
    (\E d \in DOMAIN input_datasets : ~input_datasets[d].exists_locally) =>
        pc # "pre_done"

\* every placeholder token of the template
C8_Tokens == PreRunTokens \cup {NTIMES, TIMESTEP}

\* C8: substituting a token that the namelist file does not hold reports
\* "not found" and gives back the content unchanged; and a pre_run() that
\* follows a successful pre_run() which left none of pre_run()'s tokens in
\* the file finds no token, leaves the file as it was and raises nothing.
C8_AbsentTokenNoOp ==
    /\ \A token \in C8_Tokens, new_text \in {<<>>, TextChunk(<<"text">>)} :
           ~TokenIn(mod_namelist, token) =>
               /\ ~replace_text_in_file(mod_namelist, token, new_text).found
               /\ replace_text_in_file(mod_namelist, token, new_text).contents
                      = mod_namelist
    /\ (prev_outcome = "ok"
        /\ \A token \in PreRunTokens : ~C_TokenAtStart(token)) =>
           /\ mod_namelist = prev_mod_namelist
           /\ pc # "raised"
           /\ \A k \in DOMAIN events :
                  events[k].op = "_replace_text_in_file" => ~events[k].found

\* a second pre_run() has completed on a namelist file in which the first
\* pre_run() had consumed the six tokens
C8_Witness ==
    /\ pc = "pre_done"
    /\ prev_outcome = "ok"
    /\ \A token \in PreRunTokens : ~C_TokenAtStart(token)
    /\ \A token \in PreRunTokens : C_Substitutions(token) # {}

\* pre_run() has failed with the missing-file error for this companion file
C10_Failed(name) ==
    /\ pc = "raised"
    /\ raised.type = "FileNotFoundError"
    /\ raised.ref = Get(namelists.working_path) \o <<name>>

\* once the token has been substituted: the missing-file error for the
\* companion file has been raised if and only if the token was in the
\* template and the file does not exist in the namelists directory
C10_Checked(token, name) ==
    C_Substitutions(token) # {} =>
        (C10_Failed(name) <=>
            (/\ C_TokenAtStart(token)
             /\ File(Get(namelists.working_path), <<name>>) \notin disk))

\* C10: for the MARBL settings token and the MARBL tracer list token: pre_run()
\* fails with an error naming the path of the companion file when the token
\* is in the template at the substitution and the file is missing; when the
\* token is absent, or the file exists, that error is not raised.
C10_CompanionFiles ==
    /\ C10_Checked(MARBL_SETTINGS_FILE, "marbl_in")
    /\ C10_Checked(MARBL_TRACER_LIST_FILE, "marbl_tracer_output_list")

\* the settings token was absent and marbl_in missing, which raised nothing;
\* the tracer list token was present and its file missing, which raised
C10_Witness ==
    /\ pc = "raised"
    /\ namelists.working_path # None
    /\ ~C_TokenAtStart(MARBL_SETTINGS_FILE)
    /\ File(Get(namelists.working_path), <<"marbl_in">>) \notin disk
    /\ C_Substitutions(MARBL_SETTINGS_FILE) # {}
    /\ C_TokenAtStart(MARBL_TRACER_LIST_FILE)
    /\ C10_Failed("marbl_tracer_output_list")

----------------------------------------------------------------------------
\* post_run(): file names and patterns

\* the worker index of a per-worker file, zero-padded to three digits
Pad(worker) ==
    IF worker < 10 THEN "00" \o ToString(worker) ELSE "0" \o ToString(worker)

\* the name segments of the model that end in the character 0
EndsInZero(segment) ==
    segment \in {Pad(w) : w \in {v \in 0..(ManyWorkers - 1) : v % 10 = 0}}
                \cup {"20"}

\* name matches the pattern "*.*0.nc"
MatchesOutput(name) ==
    /\ Len(name) >= 3
    /\ name[Len(name)] = "nc"
    /\ EndsInZero(name[Len(name) - 1])

\* Path(f.stem).stem: the name without its last two segments
StemOfStem(name) == SubSeq(name, 1, Len(name) - 2)

\* name matches the pattern f"{stem}.*.nc"; the * may hold dots
MatchesWildcard(stem, name) ==
    /\ Len(name) >= Len(stem) + 2
    /\ SubSeq(name, 1, Len(stem)) = stem
    /\ name[Len(name)] = "nc"

\* the lists that a glob may return for a set of matching names
Listings(names) ==
    {l \in [1..Cardinality(names) -> names] :
        \A j \in DOMAIN l, k \in DOMAIN l : j # k => l[j] # l[k]}

\* the file that ncjoin writes for the files stem.*.nc
JoinedName(stem) == Append(stem, "nc")

\* the per-worker files of a group
Workers(stem, n) == {stem \o <<Pad(w), "nc">> : w \in 0..(n - 1)}

----------------------------------------------------------------------------
\* post_run(): actions

PostRunRaises(err) ==
    pc' = "raised" /\ raised' = err /\ post_locals' = NoPostLocals

\* the for loop goes on with file number i of `files`, or post_run() returns
PostRunGoesOn(fs, i) ==
    IF i <= Len(fs)
    THEN /\ pc' = "post_join"
         /\ post_locals' = [files |-> fs, i |-> i, to_move |-> {}]
    ELSE /\ pc' = "post_done"
         /\ post_locals' = NoPostLocals

\* lines 899-904: the output files are listed, PARTITIONED is made
post_run_begin(output_dir, fs) ==
    /\ pc \in {"idle", "post_done", "raised"}
    /\ joins' = <<>>
    /\ IF output_dir = None
       THEN /\ PostRunRaises(Error("TypeError", "Path(None)"))
            /\ UNCHANGED <<partitioned, post_message>>
       ELSE IF fs = <<>>
       THEN /\ post_message' = "no suitable output found"
            /\ pc' = "post_done"
            /\ raised' = NoError
            /\ post_locals' = NoPostLocals
            /\ UNCHANGED partitioned
       ELSE /\ partitioned' = (IF partitioned = None THEN Some({})
                               ELSE partitioned)
            /\ post_message' = ""
            /\ raised' = NoError
            /\ PostRunGoesOn(fs, 1)
    /\ UNCHANGED <<namelists, discretization, mod_namelist, run_vars, proc_vars, setup_vars,
                   pre_vars, top, held, original, joined>>

PostRun_Begin ==
    \E output_dir \in {None, Some(<<"case", "output">>)},
       fs \in Listings({name \in top : MatchesOutput(name)}) :
        post_run_begin(output_dir, fs)

\* a bug: any exit code but 1 is taken for success
JoinFailedWithOne(returncode) == returncode = 1

\* ncjoin_result.returncode != 0
JoinFailed(returncode) == returncode # 0

\* lines 905-921: ncjoin is run on the files of the group of files[i]; when
\* it succeeds the files to move are listed
post_run_join(returncode, stderr) ==
    LET stem == StemOfStem(post_locals.files[post_locals.i])
        found == {name \in top : MatchesWildcard(stem, name)}
        written == IF returncode = 0 /\ found # {} THEN {JoinedName(stem)}
                   ELSE {}
        to_move == {name \in top \cup written : MatchesWildcard(stem, name)}
    IN
    /\ pc = "post_join"
    /\ joins' = Append(joins, [stem |-> stem, returncode |-> returncode,
                               stderr |-> stderr])
    /\ top' = top \cup written
    /\ joined' = joined \cup written
    /\ IF JoinFailed(returncode)
       THEN PostRunRaises(ErrorAt("RuntimeError", stderr, stem))
       ELSE IF to_move = {}
       THEN raised' = raised
            /\ PostRunGoesOn(post_locals.files, post_locals.i + 1)
       ELSE /\ pc' = "post_move"
            /\ raised' = raised
            /\ post_locals' = [post_locals EXCEPT !.to_move = to_move]
    /\ UNCHANGED <<namelists, discretization, mod_namelist, run_vars, proc_vars, setup_vars,
                   pre_vars, partitioned, held, original, post_message>>

PostRun_Join ==
    \E returncode \in ReturnCodes, stderr \in StderrTexts :
        post_run_join(returncode, stderr)

\* the file stays where it is
Stays(dir, name) == dir

\* F.rename(output_dir / "PARTITIONED" / F.name): F leaves the top level
Leaves(dir, name) == dir \ {name}

\* line 922: one file is moved into PARTITIONED
post_run_rename(name) ==
    /\ pc = "post_move"
    /\ top' = Leaves(top, name)
    /\ partitioned' = Some(Get(partitioned) \cup {name})
    /\ IF post_locals.to_move = {name}
       THEN PostRunGoesOn(post_locals.files, post_locals.i + 1)
       ELSE /\ pc' = pc
            /\ post_locals' = [post_locals EXCEPT !.to_move = @ \ {name}]
    /\ UNCHANGED <<namelists, discretization, mod_namelist, raised, run_vars,
                   proc_vars, setup_vars,
                   pre_vars, held, original, joined, joins, post_message>>

PostRun_Rename ==
    \E name \in post_locals.to_move : post_run_rename(name)

----------------------------------------------------------------------------
\* post_run(): the specification

\* the stems of the output groups: out.NNN.nc and his.20.NNN.nc
Stems == {<<"out">>, <<"his", "20">>}

\* the numbers of workers of the groups: up to MaxWorkers each, or
\* ManyWorkers for out.NNN.nc beside at most one file his.20.NNN.nc
WorkerCounts ==
    [Stems -> 0..MaxWorkers]
    \cup {[stem \in Stems |-> IF stem = <<"out">> THEN ManyWorkers ELSE k] :
              k \in 0..1}

\* what the output directory may hold besides per-worker files: nothing, a
\* log file, or the joined file his.20.nc
OtherFiles == {{}, {<<"roms", "log">>}, {<<"his", "20", "nc">>}}

\* the output directory after a run: for each stem no file or the files of
\* its workers, and the other files (none beside a large group)
InitPostRun ==
    \E n \in WorkerCounts, others \in OtherFiles :
        /\ n[<<"out">>] = ManyWorkers => others = {}
        /\ original = UNION {Workers(stem, n[stem]) : stem \in Stems}
        /\ held = original \cup others
        /\ top = held
        /\ partitioned = None
        /\ joined = {}
        /\ joins = <<>>
        /\ post_locals = NoPostLocals
        /\ post_message = ""
        /\ pc = "idle"
        /\ raised = NoError
        /\ namelists = ReadyNamelists
        /\ discretization \in [time_step : {60}, n_procs_x : {1},
                               n_procs_y : {1}]
        /\ mod_namelist = <<>>
        /\ RunUntouched
        /\ PreRunUntouched
        /\ ProcsUntouched
        /\ SetupUntouched

NextPostRun ==
    \/ PostRun_Begin
    \/ PostRun_Join
    \/ PostRun_Rename

SpecPostRun == InitPostRun /\ [][NextPostRun]_vars

----------------------------------------------------------------------------
\* post_run(): properties

\* C2: no per-worker file is ever deleted: each one the output directory held
\* is at its top level or in its PARTITIONED subdirectory at every point; and
\* when post_run() has completed on a directory that held the per-worker
\* files of one or more groups and nothing else, every per-worker file is in
\* PARTITIONED, none is at the top level, and every file at the top level is
\* one that ncjoin has written.
C2_PartitionsRelocated ==
    /\ \A name \in original :
           \/ name \in top
           \/ partitioned # None /\ name \in Get(partitioned)
    /\ (pc = "post_done" /\ original # {} /\ held = original) =>
           /\ partitioned # None
           /\ original \subseteq Get(partitioned)
           /\ original \cap top = {}
           /\ top \subseteq joined
           /\ joins # <<>> => top # {}

\* post_run() has completed on a directory that held out.000.nc and
\* out.001.nc: both are in PARTITIONED and out.nc alone is at the top level
C2_Witness ==
    /\ pc = "post_done"
    /\ held = {<<"out", "000", "nc">>, <<"out", "001", "nc">>}
    /\ original = held
    /\ partitioned = Some(held)
    /\ top = {<<"out", "nc">>}

----------------------------------------------------------------------------
\* pre_run(): further properties

\* C11: if the MARBL diagnostics list token is in the template when pre_run()
\* makes the MARBL substitutions and marbl_diagnostics_output_list is missing
\* from the namelists directory, pre_run() fails: it does not complete,
\* whatever holds of the tracer list token and file.
C11_DiagListChecked ==
    (/\ namelists.working_path # None
     /\ C_TokenAtStart(MARBL_DIAG_LIST_FILE)
     /\ File(Get(namelists.working_path),
             <<"marbl_diagnostics_output_list">>) \notin disk)
        => pc # "pre_done"

----------------------------------------------------------------------------
\* run(): further properties

\* C12: run() never returns normally without having submitted a batch script
\* or launched the command: with a scheduler or a system that is not
\* supported it fails.
C12_UnsupportedSchedulerFails ==
    pc = "returned" => (submissions # <<>> \/ launched > 0)

----------------------------------------------------------------------------
\* pre_run(): further properties

\* the datasets of the grid or the initial conditions that pre_run() is to
\* partition and that are backed by a list of files
C13_ListBacked ==
    {d \in DOMAIN input_datasets :
        /\ input_datasets[d].kind \in {"ROMSModelGrid", "ROMSInitialConditions"}
        /\ input_datasets[d].exists_locally
        /\ input_datasets[d].working_path.is_list}

C13_Token(kind) ==
    IF kind = "ROMSModelGrid" THEN GRID_FILE ELSE INITIAL_CONDITION_FILE

C13_Message(kind) ==
    IF kind = "ROMSModelGrid" THEN "ROMS only accepts a single grid file"
    ELSE "ROMS only accepts a single initial conditions file"

\* C13: with a grid or an initial-conditions dataset that is backed by a list
\* of files pre_run() never completes; once it is past the preliminary checks
\* it fails with the "only a single file" error of the first such dataset; and
\* the token of such a dataset is never substituted in the namelist file.
C13_SingleFileKinds ==
    \A d \in C13_ListBacked :
        /\ pc \notin {"pre_done", "pre_marbl_settings", "pre_marbl_tracer",
                      "pre_marbl_diag"}
        /\ TokenIn(mod_namelist, C13_Token(input_datasets[d].kind))
        /\ (pc = "raised" /\ raised.ref # <<>>
            /\ \A e \in C13_ListBacked : d <= e) =>
               /\ raised.type = "ValueError"
               /\ raised.what = C13_Message(input_datasets[d].kind)
               /\ raised.ref = DatasetRef(input_datasets[d])

\* the grid is one file and its token has been substituted, the initial
\* conditions are a list of files: pre_run() has failed on them
C13_Witness ==
    /\ pc = "raised"
    /\ raised.what = "ROMS only accepts a single initial conditions file"
    /\ ~TokenIn(mod_namelist, GRID_FILE)
    /\ TokenIn(mod_namelist, INITIAL_CONDITION_FILE)
    /\ C13_ListBacked # {}

\* the datasets that pre_run() is to partition whose files are a list that
\* spans several directories
C14_Scattered ==
    {d \in DOMAIN input_datasets :
        /\ input_datasets[d].exists_locally
        /\ input_datasets[d].working_path.is_list
        /\ \E j, k \in DOMAIN input_datasets[d].working_path.files :
               input_datasets[d].working_path.files[j].dir
                   # input_datasets[d].working_path.files[k].dir}

\* C14: with a dataset whose files span several directories pre_run() never
\* completes; partition_netcdf is never called for a file of that dataset and
\* no partition list is recorded on it; the forcing token is never
\* substituted; and the failure, when no grid or initial-conditions list
\* fails first, is the "multiple directories" error of that dataset.
C14_ColocatedFiles ==
    \A d \in C14_Scattered :
        /\ pc \notin {"pre_done", "pre_marbl_settings", "pre_marbl_tracer",
                      "pre_marbl_diag"}
        /\ \A k \in DOMAIN events, j \in DOMAIN input_datasets[d].working_path.files :
               events[k] # PartitionEvent(input_datasets[d].working_path.files[j])
        /\ partitioned_files[d] = None
        /\ TokenIn(mod_namelist, FORCING_FILES)
        /\ C_Substitutions(FORCING_FILES) = {}
        /\ (pc = "raised" /\ raised.ref # <<>> /\ C13_ListBacked = {}) =>
               /\ raised.type = "ValueError"
               /\ raised.what = "dataset exists in multiple directories"
               /\ raised.ref = DatasetRef(input_datasets[d])

\* pre_run() has partitioned bry1.nc and then failed on the boundary dataset
\* whose files are in two directories
C14_Witness ==
    /\ pc = "raised"
    /\ raised.what = "dataset exists in multiple directories"
    /\ C14_Scattered # {}
    /\ \E k \in DOMAIN events : events[k] = PartitionEvent(Nc("bry1"))

----------------------------------------------------------------------------
\* post_run(): further properties

\* an ncjoin call of this invocation ended with a non-zero exit code
C15_Failures == {k \in DOMAIN joins : joins[k].returncode # 0}

C16_Groups == {StemOfStem(name) : name \in original}

\* the ncjoin calls of this invocation for the files stem.*.nc
C16_Calls(stem) == {k \in DOMAIN joins : joins[k].stem = stem}

\* C16: post_run() calls ncjoin once for each group of per-worker files,
\* whatever the number of workers: an invocation never calls it twice for the
\* files of one group.
C16_OneJoinPerGroup ==
    \A stem \in C16_Groups : Cardinality(C16_Calls(stem)) <= 1

\* C17: a post_run() on an output directory that holds no per-worker file
\* returns at once: it prints that there is nothing to join, raises nothing,
\* does not call ncjoin, moves no file and does not make PARTITIONED.
C17_NothingToJoin ==
    [][(/\ pc \in {"idle", "post_done", "raised"}
        /\ pc' \in {"post_done", "post_join"}
        /\ top \cap original = {}) =>
           (/\ pc' = "post_done"
            /\ post_message' = "no suitable output found"
            /\ joins' = <<>>
            /\ top' = top
            /\ partitioned' = partitioned)]_vars

----------------------------------------------------------------------------
\* run(): further properties

\* C18: while exe_path is None a run() does nothing but fail with the error
\* for the missing executable: the namelist file is not changed, no directory
\* is made, no file is written, nothing is submitted, no process is launched
\* and exe_path stays None.
C18_NoExecutableNoEffect ==
    /\ [](exe_path = None =>
              /\ pc \in {"idle", "raised"}
              /\ pc = "raised" =>
                     raised = Error("ValueError", "exe_path is None")
              /\ dirs = {}
              /\ files = <<>>
              /\ writes = <<>>
              /\ submissions = <<>>
              /\ launched = 0)
    /\ [][exe_path = None =>
              (mod_namelist' = mod_namelist /\ exe_path' = exe_path)]_vars

\* run() has failed for the missing executable; the namelist file still holds
\* the tokens of run()
C18_Witness ==
    /\ exe_path = None
    /\ pc = "raised"
    /\ raised = Error("ValueError", "exe_path is None")
    /\ TokenIn(mod_namelist, NTIMES)
    /\ namelists = ReadyNamelists

----------------------------------------------------------------------------
\* pre_run(): further properties

\* C19: while the namelists hold no modified file or have no working path a
\* pre_run() does nothing but fail with the error of a preliminary check:
\* partition_netcdf is not called, no partition list is recorded and no file
\* is in a PARTITIONED directory.
C19_NoTemplateNoPartition ==
    (~namelists.has_modified_files \/ namelists.working_path = None) =>
        /\ pc \in {"idle", "raised"}
        /\ pc = "raised" =>
               /\ raised.type = "ValueError"
               /\ raised.what \in {"additional_code.working_path is None",
                                   "no editable namelist",
                                   "namelists.working_path is None"}
        /\ events = <<>>
        /\ \A d \in DOMAIN partitioned_files : partitioned_files[d] = None
        /\ \A file \in disk :
               \A j \in DOMAIN file.dir : file.dir[j] # "PARTITIONED"
        /\ disk = LocalFiles(input_datasets)
                  \cup {File(<<"case", "namelists">>, <<c>>) :
                           c \in CompanionNames}

\* pre_run() has failed because the namelists have a modified file but no
\* working path, on a component whose datasets are all on disk
C19_Witness ==
    /\ pc = "raised"
    /\ raised.what = "namelists.working_path is None"
    /\ namelists.has_modified_files
    /\ input_datasets = FullDatasets
    /\ events = <<>>

\* a step of run() that gets as far as the node distribution: the executable
\* and the namelists are in place and the system is a known one
C20_ReachesPlanner ==
    /\ pc = "idle" /\ pc' # "idle"
    /\ exe_path # None
    /\ namelists = ReadyNamelists
    /\ raised'.type # "UnboundLocalError"

\* C20: a run() that gets as far as the node distribution with no
\* cores-per-node value for the system, or with n_procs_x * n_procs_y not
\* positive, fails there with an error of the node distribution; no script
\* is written, no job is submitted and no process is launched, then or later.
C20_NoPlanNoJob ==
    /\ [][(/\ C20_ReachesPlanner
           /\ (run_locals'.cores_per_node = None
                  \/ n_procs_tot(discretization) <= 0)) =>
              /\ pc' = "raised"
              /\ raised' \in
                     {Error("ValueError", "unable to calculate node distribution"),
                      Error("ConfigurationError", "n_cores_required is not positive")}
              /\ files' = <<>> /\ writes' = <<>>
              /\ submissions' = <<>> /\ launched' = 0]_vars
    /\ [](n_procs_tot(discretization) <= 0 =>
              /\ pc \in {"idle", "raised"}
              /\ files = <<>> /\ writes = <<>>
              /\ submissions = <<>> /\ launched = 0)
    /\ [](raised = Error("ValueError", "unable to calculate node distribution") =>
              /\ pc = "raised"
              /\ files = <<>> /\ writes = <<>>
              /\ submissions = <<>> /\ launched = 0)

\* run() has failed in the node distribution on a component of 0 processes,
\* on a system whose cores per node are known
C20_Witness ==
    /\ pc = "raised"
    /\ raised = Error("ConfigurationError", "n_cores_required is not positive")
    /\ n_procs_tot(discretization) = 0
    /\ run_locals.cores_per_node # None
    /\ exe_path # None

----------------------------------------------------------------------------
\* run(): the namelist file at the launch

\* the placeholder tokens of the namelist template
C21_PlaceholderTokens == PreRunTokens \cup {NTIMES, TIMESTEP}

\* C21: once run() has launched the child or submitted the script, the
\* namelist file named on the command line holds no placeholder token.
C21_NoTokenAtLaunch ==
    (launched > 0 \/ submissions # <<>>) =>
        \A token \in C21_PlaceholderTokens : ~TokenIn(mod_namelist, token)

----------------------------------------------------------------------------
\* pre_run(): repeated invocations

\* the paths that partition_netcdf was given in this invocation, in order
C22_Partitioned ==
    SelectSeq(events, LAMBDA ev : ev.op = "partition_netcdf")

\* C22: partition_netcdf is given a backing file at most once: not twice in
\* one pre_run(), and not again in a pre_run() that began with the partition
\* list of the file's dataset already recorded by an earlier one.
C22_PartitionedOnce ==
    /\ \A i, j \in DOMAIN C22_Partitioned :
           i # j => C22_Partitioned[i].arg # C22_Partitioned[j].arg
    /\ \A d \in DOMAIN prev_partitioned_files :
           prev_partitioned_files[d] # None =>
               \A k \in DOMAIN C22_Partitioned :
                   \A file \in Range(input_datasets[d].working_path.files) :
                       C22_Partitioned[k].arg # PathOf(file)

----------------------------------------------------------------------------
\* run(): the progress loop, line after line

\* the loop has handled a progress line and now handles the next line
C25_LineAfterProgress ==
    /\ pc = "reading" /\ pc' = "reading"
    /\ printed.kind = "progress"
    /\ romsprocess'.nlines = romsprocess.nlines + 1

\* C25: the line that follows a progress line never makes the loop print the
\* initializing message, whatever the step of the progress line.
C25_NoInitAfterProgress ==
    [][C25_LineAfterProgress => printed'.kind # "init"]_vars

\* C26: the baseline step that a progress line has set is not changed by the
\* progress line that follows it, and that line reports its step minus the
\* baseline.
C26_BaselineFixed ==
    [][(C25_LineAfterProgress /\ printed'.kind = "progress") =>
          /\ tstep0' = tstep0
          /\ printed'.step = IntValue(last_line'.first) - tstep0]_vars

\* C27: the ETA printed for a progress line with elapsed steps is
\* (requested steps - elapsed steps) * (elapsed time / elapsed steps); the
\* ETA is the fraction eta_num / eta_den and the elapsed time of the ETA is
\* the clock reading eta_den.
C27_EtaIsTimePerStep ==
    (pc = "reading" /\ printed.kind = "progress" /\ printed.step # 0) =>
        printed.eta_num * printed.step =
            (printed.of - printed.step) * printed.eta_den * printed.eta_den

----------------------------------------------------------------------------
\* run(): batch schedulers

\* the scheduler of the invocation is pbs or slurm
C28_Batch == run_locals.scheduler \in {Some("pbs"), Some("slurm")}

\* the script of the invocation, as the scheduler wants it
C28_Script ==
    IF run_locals.scheduler = Some("pbs") THEN PbsScript(run_locals)
    ELSE SlurmScript(run_locals)

\* the fixed place of the script in the run directory
C28_ScriptPath ==
    Join(run_locals.output_dir,
         IF run_locals.scheduler = Some("pbs") THEN "cstar_run_script.pbs"
         ELSE "cstar_run_script.sh")

\* C28: under pbs or slurm a run() that passes its checks first writes the
\* whole script to cstar_run_script.pbs or cstar_run_script.sh in the run
\* directory, and nothing else; then it invokes qsub (pbs) or sbatch (slurm)
\* once, on that file name, with the run directory as working directory; it
\* launches no child process.
C28_ScriptThenOneSubmission ==
    /\ C28_Batch => launched = 0
    /\ (C28_Batch /\ pc \in {"submit", "returned"}) =>
          /\ writes = <<C28_ScriptPath>>
          /\ DOMAIN files = {C28_ScriptPath}
          /\ files[C28_ScriptPath] = C28_Script
          /\ C28_Script[Len(C28_Script)] = run_locals.roms_exec_cmd
    /\ pc = "submit" => C28_Batch /\ submissions = <<>>
    /\ (C28_Batch /\ pc = "returned") =>
          /\ Len(submissions) = 1
          /\ submissions[1].cmd =
                 (IF run_locals.scheduler = Some("pbs") THEN "qsub" ELSE "sbatch")
          /\ Join(submissions[1].cwd, submissions[1].script) = C28_ScriptPath
          /\ submissions[1].cwd = run_locals.output_dir
    /\ submissions # <<>> => C28_Batch /\ pc = "returned"

\* a pbs run has written its script and called qsub
C28_Witness ==
    /\ pc = "returned"
    /\ run_locals.scheduler = Some("pbs")
    /\ Len(submissions) = 1
    /\ submissions[1].cmd = "qsub"

\* C29: under pbs or slurm run() returns as soon as the queue command has
\* returned, whatever its exit code: it raises nothing, writes no error log
\* and waits for no process.
C29_SubmissionNeverFails ==
    /\ submissions # <<>> =>
          /\ pc = "returned"
          /\ raised = NoError
          /\ Len(writes) = 1
          /\ romsprocess = NoProcess
    /\ C28_Batch =>
          /\ raised.type # "RuntimeError"
          /\ \A stamp \in Stamps :
                 ErrlogPath(run_locals.output_dir, stamp) \notin DOMAIN files
          /\ pc \notin {"reading"}

\* sbatch has rejected the job and run() has returned
C29_Witness ==
    /\ pc = "returned"
    /\ run_locals.scheduler = Some("slurm")
    /\ Len(submissions) = 1
    /\ submissions[1].returncode = 2
    /\ raised = NoError

----------------------------------------------------------------------------
\* run(), case None: the child process and its two pipes
\*
\* Popen(..., stdout=PIPE, stderr=PIPE) gives the child two pipes of bounded
\* capacity. run() reads standard output until end-of-file (`for line in
\* romsprocess.stdout`), which comes when the child exits; it reads standard
\* error only after romsprocess.wait(), and only on a non-zero exit code.

\* the child writes one unit to standard output or to standard error; the
\* write blocks while the pipe is full, and once the supervisor is gone the
\* pipe has no reader and the write ends the child (SIGPIPE)
Child_Write ==
    /\ child.status = "running"
    /\ \E stream \in {"stdout", "stderr"} :
         /\ child.left[stream] > 0
         /\ IF pc = "killed"
            THEN /\ child' = [child EXCEPT !.status = "terminated"]
                 /\ UNCHANGED pipes
            ELSE /\ pipes[stream] < PipeCapacity
                 /\ child' = [child EXCEPT !.left[stream] = @ - 1]
                 /\ pipes' = [pipes EXCEPT ![stream] = @ + 1]
    /\ UNCHANGED <<namelists, discretization, mod_namelist, pc, raised,
                   run_vars, pre_vars, post_vars, makes, setup_vars>>

\* the child has written everything and exits: its ends of the pipes close
Child_Exit ==
    /\ child.status = "running"
    /\ child.left = [stdout |-> 0, stderr |-> 0]
    /\ \E rc \in ReturnCodes :
         child' = [child EXCEPT !.status = "exited", !.returncode = Some(rc)]
    /\ UNCHANGED <<namelists, discretization, mod_namelist, pc, raised,
                   run_vars, pre_vars, post_vars, makes, pipes,
                   setup_vars>>

\* one iteration of `for line in romsprocess.stdout` on a line of the pipe
Sup_ReadLine ==
    /\ pipes.stdout > 0
    /\ pipes' = [pipes EXCEPT !.stdout = @ - 1]
    /\ UNCHANGED <<makes, child, setup_vars>>
    /\ \E line \in Lines : read_line(line)

\* end-of-file on standard output, romsprocess.wait() and lines 873-885:
\* romsprocess.stderr.read() empties the pipe of standard error
Sup_Wait ==
    /\ pipes.stdout = 0
    /\ child.status = "exited"
    /\ pipes' = IF ExitedWithErrors(Get(child.returncode))
                THEN [pipes EXCEPT !.stderr = 0] ELSE pipes
    /\ UNCHANGED <<makes, child, setup_vars>>
    /\ \E stamp \in Stamps :
         run_wait(Get(child.returncode),
                  IF pipes.stderr = 0 THEN ""
                  ELSE "forrtl: severe (174): SIGSEGV",
                  stamp)

\* the supervising Python process is killed while the child is running:
\* run() installs no handler, starts no process group and terminates nothing
Sup_Kill ==
    /\ pc = "reading"
    /\ child.status = "running"
    /\ pc' = "killed"
    /\ UNCHANGED <<namelists, discretization, mod_namelist, raised, run_vars,
                   pre_vars, post_vars, proc_vars, setup_vars>>

\* the state that Popen leaves (lines 819-831): the child is running, with
\* something yet to write to each stream, and the pipes are empty
InitDirect ==
    /\ exe_path = Some(<<"case", "build", "roms">>)
    /\ namelists = ReadyNamelists
    /\ discretization = [time_step |-> 60, n_procs_x |-> 1, n_procs_y |-> 1]
    /\ mod_namelist = <<TextChunk(<<"title">>)>>
    /\ dirs = {<<"case", "build">>}
    /\ files = <<>>
    /\ writes = <<>>
    /\ submissions = <<>>
    /\ launched = 1
    /\ pc = "reading"
    /\ raised = NoError
    /\ run_locals = [NoLocals EXCEPT !.n_time_steps = 1,
                                     !.output_dir = <<"case", "build">>]
    /\ tstep0 = 0
    /\ roms_init_string = ""
    /\ clock = 0
    /\ last_line = NoLine
    /\ printed = NoPrint
    /\ romsprocess = NoProcess
    /\ PreRunUntouched
    /\ PostRunUntouched
    /\ makes = <<>>
    /\ \E out \in 0..MaxLines, err \in 0..MaxStderr :
         child = [status |-> "running",
                  left |-> [stdout |-> out, stderr |-> err],
                  returncode |-> None]
    /\ pipes = [stdout |-> 0, stderr |-> 0]
    /\ SetupUntouched

NextDirect ==
    \/ Child_Write
    \/ Child_Exit
    \/ Sup_ReadLine
    \/ Sup_Wait
    \/ Sup_Kill

\* the child and the supervisor each take a step whenever they have one
SpecDirect ==
    /\ InitDirect
    /\ [][NextDirect]_vars
    /\ WF_vars(Child_Write \/ Child_Exit)
    /\ WF_vars(Sup_ReadLine \/ Sup_Wait)

\* C23: once the supervising process has been killed the child is no longer
\* running.
C23_ChildDiesWithSupervisor ==
    pc = "killed" => child.status # "running"

\* C30: a supervisor that is not killed ends: run() returns or raises.
C30_SupervisorFinishes ==
    <>(pc \in {"returned", "raised", "killed"})

----------------------------------------------------------------------------
\* build()

\* build_dir / "Compile"
CompileDir == Join(Get(additional_source_code.working_path), "Compile")

\* build_dir / "roms"
RomsBinary == File(Get(additional_source_code.working_path), <<"roms">>)

\* lines 400-426: the checks, and `make compile_clean` where build_dir/Compile
\* is a directory; what a successful clean removes is the Makefile's affair
Build_Begin ==
    /\ pc \in {"idle", "built", "raised"}
    /\ UNCHANGED <<namelists, discretization, mod_namelist, exe_path, files,
                   writes, submissions, launched, run_locals, tstep0,
                   roms_init_string, clock, last_line, printed, romsprocess,
                   additional_source_code, input_datasets, partitioned_files,
                   events, pre_locals, prev_mod_namelist,
                   prev_partitioned_files, prev_outcome, post_vars, child,
                   pipes, setup_vars>>
    /\ IF additional_source_code.is_none
       THEN /\ RunRaises(Error("ValueError", "additional_source_code is None"))
            /\ makes' = <<>>
            /\ UNCHANGED <<dirs, disk>>
       ELSE IF additional_source_code.working_path = None
       THEN /\ RunRaises(Error("ValueError",
                               "additional_source_code.working_path is None"))
            /\ makes' = <<>>
            /\ UNCHANGED <<dirs, disk>>
       ELSE IF CompileDir \in dirs
       THEN \E rc \in ReturnCodes, err \in StderrTexts,
               removed \in SUBSET {"Compile", "roms"} :
               /\ makes' = <<[cmd |-> "make compile_clean",
                              cwd |-> Get(additional_source_code.working_path),
                              returncode |-> rc, stderr |-> err]>>
               /\ IF rc # 0
                  THEN /\ RunRaises(ErrorAt("RuntimeError",
                                            "Error when compiling ROMS",
                                            <<ToString(rc), err>>))
                       /\ UNCHANGED <<dirs, disk>>
                  ELSE /\ pc' = "build_make"
                       /\ raised' = NoError
                       /\ dirs' = IF "Compile" \in removed
                                  THEN dirs \ {CompileDir} ELSE dirs
                       /\ disk' = IF "roms" \in removed
                                  THEN disk \ {RomsBinary} ELSE disk
       ELSE /\ pc' = "build_make"
            /\ raised' = NoError
            /\ makes' = <<>>
            /\ UNCHANGED <<dirs, disk>>

\* lines 428-444: `make COMPILER=...`; exe_path is set after a successful make
Build_Make ==
    /\ pc = "build_make"
    /\ UNCHANGED <<namelists, discretization, mod_namelist, files,
                   writes, submissions, launched, run_locals, tstep0,
                   roms_init_string, clock, last_line, printed, romsprocess,
                   additional_source_code, input_datasets, partitioned_files,
                   events, pre_locals, prev_mod_namelist,
                   prev_partitioned_files, prev_outcome, post_vars, child,
                   pipes, setup_vars>>
    /\ \E rc \in ReturnCodes, err \in StderrTexts :
         /\ makes' = Append(makes,
                [cmd |-> "make",
                 cwd |-> Get(additional_source_code.working_path),
                 returncode |-> rc, stderr |-> err])
         /\ IF rc # 0
            THEN /\ RunRaises(ErrorAt("RuntimeError",
                                      "Error when compiling ROMS",
                                      <<ToString(rc), err>>))
                 /\ UNCHANGED <<exe_path, dirs, disk>>
            ELSE /\ pc' = "built"
                 /\ raised' = NoError
                 /\ dirs' = dirs \cup {CompileDir}
                 /\ disk' = disk \cup {RomsBinary}
                 /\ exe_path' = Some(PathOf(RomsBinary))

\* a new component (exe_path is None, line 145) whose source directory may
\* hold the products of an earlier compilation
InitBuild ==
    /\ exe_path = None
    /\ additional_source_code \in AdditionalSourceCodes
    /\ dirs \in SUBSET {<<"case", "source", "Compile">>}
    /\ disk \in SUBSET {File(<<"case", "source">>, <<"roms">>)}
    /\ makes = <<>>
    /\ pc = "idle"
    /\ raised = NoError
    /\ namelists = ReadyNamelists
    /\ discretization = [time_step |-> 60, n_procs_x |-> 1, n_procs_y |-> 1]
    /\ mod_namelist = <<>>
    /\ files = <<>>
    /\ writes = <<>>
    /\ submissions = <<>>
    /\ launched = 0
    /\ run_locals = NoLocals
    /\ tstep0 = 0
    /\ roms_init_string = ""
    /\ clock = 0
    /\ last_line = NoLine
    /\ printed = NoPrint
    /\ romsprocess = NoProcess
    /\ input_datasets = <<>>
    /\ partitioned_files = <<>>
    /\ events = <<>>
    /\ pre_locals = NoPreLocals
    /\ prev_mod_namelist = <<>>
    /\ prev_partitioned_files = <<>>
    /\ prev_outcome = "none"
    /\ PostRunUntouched
    /\ child = [status |-> "none", left |-> [stdout |-> 0, stderr |-> 0],
                returncode |-> None]
    /\ pipes = [stdout |-> 0, stderr |-> 0]
    /\ SetupUntouched

NextBuild ==
    \/ Build_Begin
    \/ Build_Make

SpecBuild == InitBuild /\ [][NextBuild]_vars

\* C24: between build() invocations exe_path is None or the path of a
\* binary that exists.
C24_ExePathIsBuilt ==
    (pc \in {"idle", "built", "raised"} /\ exe_path # None) =>
        File(Parent(Get(exe_path)), <<"roms">>) \in disk

----------------------------------------------------------------------------
\* pre_run(): repeated invocations and the MARBL files

\* the namelist file names the path of the companion file
C31_Names(name) ==
    \E i \in DOMAIN mod_namelist :
        mod_namelist[i] = TextChunk(PathOf(Companion(name)))

\* C31: a pre_run() that completes leaves no namelist file naming a MARBL
\* settings file or tracer list that does not exist: while the file is
\* missing, every pre_run() on a template that held its token fails.
C31_MissingCompanionFailsAgain ==
    pc = "pre_done" =>
        \A name \in {"marbl_in", "marbl_tracer_output_list"} :
            C31_Names(name) => Companion(name) \in disk

----------------------------------------------------------------------------
\* run(): repeated invocations

\* C32: once run() has launched the child or submitted the script, the
\* total-steps entry of the namelist file (the one before the time step)
\* holds the n_time_steps of this invocation, the value of the progress
\* reports.
C32_TemplateHoldsRequestedSteps ==
    ((launched > 0 \/ submissions # <<>>) /\ Len(mod_namelist) >= 3) =>
        mod_namelist[Len(mod_namelist) - 1] =
            TextChunk(<<ToString(run_locals.n_time_steps)>>)

----------------------------------------------------------------------------
\* post_run(): repeated invocations

\* C33: post_run() is idempotent: a second post_run() on an output directory
\* on which a first post_run() has joined files and returned, with nothing
\* written in between, lists no file to join, so that it returns at once
\* without a call of ncjoin, raises nothing and leaves the top level and
\* PARTITIONED as they are.
C33_SecondPostRunDoesNothing ==
    [][(/\ pc = "post_done"
        /\ joins # <<>>
        /\ pc' \in {"post_done", "post_join"}) =>
           (/\ pc' = "post_done"
            /\ raised' = NoError
            /\ top' = top
            /\ partitioned' = partitioned)]_vars

----------------------------------------------------------------------------
\* setup(): the input datasets of the run interval (lines 311-390)

\* the dates of the model
MaxDate == 3

Dates == 1..MaxDate

OptionalDates == {None} \cup {Some(date) : date \in Dates}

\* an interval with both ends given begins no later than it ends
WellFormed(start_date, end_date) ==
    IF start_date = None THEN TRUE
    ELSE IF end_date = None THEN TRUE
    ELSE Get(start_date) <= Get(end_date)

\* the input datasets as setup() sees them: the validity interval and the
\* type of the source
DatedDatasets ==
    {inp \in [start_date : OptionalDates, end_date : OptionalDates,
              source_type : {"netcdf", "yaml"}] :
        WellFormed(inp.start_date, inp.end_date)}

\* lines 366-371: the condition of the if statement; `and` binds tighter
\* than `or`, and its second operand compares the two arguments of setup()
InDateRange(inp, start_date, end_date) ==
    IF inp.start_date = None THEN TRUE
    ELSE IF inp.end_date = None THEN TRUE
    ELSE IF start_date = None THEN TRUE
    ELSE IF end_date = None THEN TRUE
    ELSE /\ Get(inp.start_date) <= Get(end_date)
         /\ Get(end_date) >= Get(start_date)

\* a call that setup() makes on an object of the component
Call(what, i) ==
    [what |-> what, dataset |-> i, target_dir |-> None, start_date |-> None,
     end_date |-> None]

\* lines 345-362: base_model.handle_config_status(), then get() on the
\* additional source code and on the namelists, each unless it is None
FirstCalls ==
    <<Call("base_model.handle_config_status", 0)>>
    \o (IF additional_source_code.is_none THEN <<>>
        ELSE <<Call("additional_source_code.get", 0)>>)
    \o (IF namelists.is_none THEN <<>> ELSE <<Call("namelists.get", 0)>>)

\* lines 380-390: get_from_yaml() for a yaml source, get() otherwise
GetCall(i, inp, l) ==
    IF inp.source_type = "yaml"
    THEN [what |-> "get_from_yaml", dataset |-> i,
          target_dir |-> l.target_dir, start_date |-> l.start_date,
          end_date |-> l.end_date]
    ELSE [Call("get", i) EXCEPT !.target_dir = l.target_dir]

\* the for loop goes on with dataset number i, or setup() returns
SetupGoesOn(i, l) ==
    /\ setup_locals' = [l EXCEPT !.i = i]
    /\ pc' = IF i <= Len(input_datasets) THEN "setup_loop" ELSE "setup_done"

\* lines 345-362: the base model is configured, the additional source code
\* and the namelists are fetched; the for loop begins
setup_begin(input_datasets_target_dir, start_date, end_date) ==
    /\ pc \in {"idle", "setup_done", "raised"}
    /\ gets' = FirstCalls
    /\ raised' = NoError
    /\ SetupGoesOn(1, [i |-> 1, target_dir |-> input_datasets_target_dir,
                       start_date |-> start_date, end_date |-> end_date])
    /\ UNCHANGED <<namelists, discretization, mod_namelist, run_vars,
                   pre_vars, post_vars, proc_vars>>

Setup_Begin ==
    \E input_datasets_target_dir \in {None, Some(<<"case", "input">>)},
       start_date \in OptionalDates, end_date \in OptionalDates :
        /\ WellFormed(start_date, end_date)
        /\ setup_begin(input_datasets_target_dir, start_date, end_date)

\* lines 364-390: one iteration of the for loop
setup_dataset ==
    LET i == setup_locals.i
        inp == input_datasets[i]
    IN
    /\ pc = "setup_loop"
    /\ IF ~InDateRange(inp, setup_locals.start_date, setup_locals.end_date)
       THEN /\ SetupGoesOn(i + 1, setup_locals)
            /\ UNCHANGED <<gets, raised>>
       ELSE IF setup_locals.target_dir = None
       THEN /\ pc' = "raised"
            /\ raised' = Error("ValueError",
                               "did not receive a input_datasets_target_dir")
            /\ setup_locals' = NoSetupLocals
            /\ UNCHANGED gets
       ELSE /\ gets' = Append(gets, GetCall(i, inp, setup_locals))
            /\ SetupGoesOn(i + 1, setup_locals)
            /\ UNCHANGED raised
    /\ UNCHANGED <<namelists, discretization, mod_namelist, run_vars,
                   pre_vars, post_vars, proc_vars>>

\* a component with one or two input datasets; setup() has not been invoked
InitSetup ==
    /\ input_datasets \in
           {<<inp>> : inp \in DatedDatasets}
           \cup {<<inp, other>> : inp \in DatedDatasets, other \in DatedDatasets}
    /\ setup_locals = NoSetupLocals
    /\ gets = <<>>
    /\ pc = "idle"
    /\ raised = NoError
    /\ namelists = ReadyNamelists
    /\ discretization = [time_step |-> 60, n_procs_x |-> 1, n_procs_y |-> 1]
    /\ mod_namelist = <<>>
    /\ additional_source_code = ReadySourceCode
    /\ partitioned_files = <<>>
    /\ disk = {}
    /\ events = <<>>
    /\ pre_locals = NoPreLocals
    /\ prev_mod_namelist = <<>>
    /\ prev_partitioned_files = <<>>
    /\ prev_outcome = "none"
    /\ RunUntouched
    /\ PostRunUntouched
    /\ ProcsUntouched

NextSetup ==
    \/ Setup_Begin
    \/ setup_dataset

SpecSetup == InitSetup /\ [][NextSetup]_vars

\* dataset number i has been fetched by the setup() invocation
C34_Fetched(i) == \E k \in DOMAIN gets : gets[k].dataset = i

\* the validity interval of inp and the run interval of l overlap, or one of
\* the four dates is not given
C34_Overlap(inp, l) ==
    IF inp.start_date = None \/ inp.end_date = None THEN TRUE
    ELSE IF l.start_date = None \/ l.end_date = None THEN TRUE
    ELSE /\ Get(inp.start_date) <= Get(l.end_date)
         /\ Get(inp.end_date) >= Get(l.start_date)

\* C34: with a run interval and a target directory given, setup() has
\* fetched a dataset that carries a validity interval if and only if the two
\* intervals overlap: the dataset begins no later than the run ends and
\* ends no earlier than the run begins. A dataset without one of its dates,
\* and every dataset when a date of the run is not given, is fetched.
C34_FetchedIffOverlap ==
    (pc \in {"setup_loop", "setup_done"} /\ setup_locals.target_dir # None) =>
        \A i \in DOMAIN input_datasets :
            i < setup_locals.i =>
                (C34_Fetched(i) <=> C34_Overlap(input_datasets[i], setup_locals))

====
